---- MODULE Spec2Model ----
(***************************************************************************)
(* A model of the event routing and delivery pipeline of                   *)
(* matrix-appservice-discord.                                              *)
(*                                                                         *)
(*   SpecRouter : MatrixEventProcessor.OnEvent and the handlers it calls   *)
(*                (Matrix -> Discord direction).                           *)
(*   SpecEmbed  : MatrixEventProcessor.EventToEmbed / GetEmbedForReply.    *)
(*   SpecQueue  : DiscordBot.run's per-channel promise chains, OnMessage,  *)
(*                DeleteDiscordMessage (Discord -> Matrix direction).      *)
(*                                                                         *)
(* Strings whose characters the code inspects are sequences of one-        *)
(* character strings; identifiers the code only compares are atoms.        *)
(***************************************************************************)
EXTENDS Integers, Sequences, FiniteSets, TLC

VARIABLES
    \* ---- router (SpecRouter) ----
    config,       \* config.bridge: [disableDeletionForwarding]
    roomStore,    \* bridge.getRoomStore(): Matrix room id -> entry or NoEntry
    removed,      \* history: rooms whose entries removeEntriesByMatrixRoomId removed
    dbEvents,     \* DiscordStore: sequence of DbEvent rows, in insertion order
    last,         \* summary of the most recent OnEvent call (dispatch)
    reqs,         \* OnEvent calls still awaiting something: slot -> request or Idle
    fin,          \* summary of the most recent OnEvent call that settled after awaiting
    \* ---- embed (SpecEmbed) ----
    emb,          \* the last EventToEmbed call: its input and its result
    \* ---- queue (SpecQueue) ----
    gw,           \* number of events the Discord gateway has emitted
    timers,       \* events waiting in Bluebird.delay(discordSendDelay), oldest first
    queue,        \* discordMessageQueue: channel id -> last chained task, 0 if none
    tasks,        \* every chained task, in the order the tasks were chained
    sentMessages, \* DiscordBot.sentMessages (0 marks a deleted element)
    everSent,     \* history: every id ever pushed onto sentMessages
    bridgeSends,  \* messages ProcessMatrixMsgEvent handed to Discord: sending or sent
    flight,       \* promises OnMessage started and nobody awaits
    roomLog,      \* history: per Matrix room, the intent.sendMessage calls in call order
    logged,       \* history: the failed sends OnMessage logged
    \* ---- single calls of the processors' methods ----
    call,         \* the calls of a method looked at: name, input and result of each
    mxUserProfileCache, \* MatrixEventProcessor.mxUserProfileCache: key -> profile
    webhooks      \* the webhooks Discord holds for the channel, oldest first

routerVars == <<config, roomStore, removed, dbEvents, last, reqs, fin>>
embedVars  == <<emb>>
queueVars  == <<gw, timers, queue, tasks, sentMessages, everSent, bridgeSends, flight, roomLog,
               logged>>
callVars   == <<call, mxUserProfileCache, webhooks>>
vars == <<config, roomStore, removed, dbEvents, last, reqs, fin, emb,
          gw, timers, queue, tasks, sentMessages, everSent, bridgeSends, flight, roomLog,
          logged, call, mxUserProfileCache, webhooks>>

\* Discord channel ids
Channels == {"2", "34", "5"}

\* a channel bridged to two Matrix rooms
WideChannel == "5"

\* Matrix rooms that receive Discord messages
TargetRooms == {"!a", "!b", "!c", "!d"}

\* the DiscordBot fields after the constructor, before any gateway event
QueueIdle ==
    /\ gw = 0
    /\ timers = <<>>
    /\ queue = [c \in Channels |-> 0]
    /\ tasks = <<>>
    /\ sentMessages = <<>>
    /\ everSent = {}
    /\ bridgeSends = <<>>
    /\ flight = {}
    /\ roomLog = [r \in TargetRooms |-> <<>>]
    /\ logged = {}

\* no method call is being looked at, the profile cache is empty
CallIdle ==
    /\ call = <<>>
    /\ mxUserProfileCache = <<>>
    /\ webhooks = <<>>

(***************************************************************************)
(* String helpers (JavaScript String.prototype semantics).                 *)
(***************************************************************************)
\* s.substr(n)
Substr(s, n) == SubSeq(s, n + 1, Len(s))

\* s.startsWith(p)
StartsWith(s, p) == Len(s) >= Len(p) /\ SubSeq(s, 1, Len(p)) = p

\* index of the first occurrence of the one-character separator, 0 when absent
RECURSIVE IndexOfChar(_, _, _)
IndexOfChar(s, c, i) ==
    IF i > Len(s) THEN 0
    ELSE IF s[i] = c THEN i
    ELSE IndexOfChar(s, c, i + 1)

\* s.split(sep): all the pieces
RECURSIVE SplitAll(_, _)
SplitAll(s, sep) ==
    LET i == IndexOfChar(s, sep, 1) IN
    IF i = 0 THEN <<s>>
    ELSE <<SubSeq(s, 1, i - 1)>> \o SplitAll(SubSeq(s, i + 1, Len(s)), sep)

\* s.split(sep, limit): at most the first limit pieces
Split(s, sep, limit) ==
    LET all == SplitAll(s, sep) IN
    IF Len(all) <= limit THEN all ELSE SubSeq(all, 1, limit)

(***************************************************************************)
(* Program constants.                                                      *)
(***************************************************************************)
AGE_LIMIT == 900000
ROOM_NAME_PARTS == 2
\* "_discord".length
DiscordPrefixLen == 8

(***************************************************************************)
(* The world the router runs in: users, rooms, bridge entries, the store.  *)
(***************************************************************************)
BotUserId == "@bot"
RemoteUsers == {"@_discord_1"}
Users == {BotUserId, "@_discord_1", "@alice"}
Senders == {"@_discord_1", "@alice"}

\* bridge.getBot().isRemoteUser(userId)
isRemoteUser(u) == u \in RemoteUsers

MxRooms == {"!a", "!b", "!c"}
NoEntry == [roomId |-> <<>>, discord_guild |-> <<>>, discord_channel |-> <<>>]

Chars(kind) ==
    CASE kind = "discord_"  -> <<"d", "i", "s", "c", "o", "r", "d", "_">>
      [] kind = "_bridged"  -> <<"_", "b", "r", "i", "d", "g", "e", "d">>
      [] kind = "!discord"  -> <<"!", "d", "i", "s", "c", "o", "r", "d">>
      [] kind = "hi"        -> <<"h", "i">>
      [] kind = "_"         -> <<"_">>
      [] kind = " "         -> <<" ">>

\* A room-store entry of a bridged room: remote id "discord_<guild>_<channel><suffix>"
Entry(guild, channel, suffix) ==
    [roomId |-> Chars("discord_") \o guild \o Chars("_") \o channel \o suffix,
     discord_guild |-> guild, discord_channel |-> channel]

InitialRoomStore ==
    [r \in MxRooms |->
        CASE r = "!a" -> Entry(<<"1">>, <<"2">>, <<>>)
          [] r = "!b" -> Entry(<<"1">>, <<"3", "4">>, Chars("_bridged"))
          [] OTHER    -> NoEntry]

\* DbEvent rows: MatrixId is "<event id>;<room id>", kept as the pair it is built from
Row(ev, room, discordId, guild, channel) ==
    [MatrixId |-> <<ev, room>>, DiscordId |-> discordId,
     GuildId |-> guild, ChannelId |-> channel]

InitialDbEvents ==
    << Row("$1", "!a", "d1", <<"1">>, <<"2">>),
       Row("$1", "!b", "d3", <<"1">>, <<"3", "4">>),
       Row("$1", "!a", "d2", <<"1">>, <<"2">>) >>

\* membership of earlier state events, as intent.getEvent(room, replaces_state) returns it
PriorMembership(eventId) == IF eventId = "$p2" THEN "ban" ELSE "join"

(***************************************************************************)
(* Matrix events, as OnEvent reads them.                                   *)
(***************************************************************************)
EventIds == {"$1", "$2"}
Ages == {0, AGE_LIMIT, AGE_LIMIT + 1}
Bodies == { <<>>, Chars("hi"), Chars("!discord"),
            Chars("!discord") \o Chars(" ") \o Chars("hi"),
            Chars("hi") \o Chars("!discord") }

BaseEvent(type, age, room, sender) ==
    [type |-> type, event_id |-> "$1", age |-> age, room_id |-> room,
     sender |-> sender, state_key |-> "", membership |-> "",
     body |-> <<>>, redacts |-> "", replaces_state |-> ""]

MemberEvents ==
    { [BaseEvent("m.room.member", a, r, s) EXCEPT
          !.state_key = k, !.membership = m, !.replaces_state = p] :
        a \in Ages, r \in {"!a", "!c"}, s \in Senders, k \in Users,
        m \in {"invite", "join", "leave", "ban"}, p \in {"$p1", "$p2"} }

StateEvents ==
    { BaseEvent(t, a, r, s) :
        t \in {"m.room.name", "m.room.topic"}, a \in Ages, r \in {"!a", "!c"},
        s \in Senders }

RedactionEvents ==
    { [BaseEvent("m.room.redaction", a, r, "@alice") EXCEPT !.redacts = e] :
        a \in Ages, r \in MxRooms, e \in EventIds }

MessageEvents ==
    { [BaseEvent(t, a, r, "@alice") EXCEPT !.body = b, !.event_id = e] :
        t \in {"m.room.message", "m.sticker"}, a \in Ages, r \in MxRooms,
        b \in Bodies, e \in EventIds }

OtherEvents ==
    { BaseEvent(t, a, r, "@alice") :
        t \in {"m.room.encryption", "m.room.create"}, a \in Ages, r \in MxRooms }

Events == MemberEvents \cup StateEvents \cup RedactionEvents \cup MessageEvents
          \cup OtherEvents

\* What the collaborators OnEvent awaits answer: TRUE where a call succeeds.
Envs ==
    [getEventOk : BOOLEAN, storeGetOk : BOOLEAN, failAt : 0..2,
     failKind : {"lookup", "fetch", "delete"}, handlerOk : BOOLEAN]

(***************************************************************************)
(* DiscordBot.ProcessMatrixRedact: the calls it makes, in order, and       *)
(* whether it rejects.                                                     *)
(***************************************************************************)
\* the key the mappings are looked up under: event.redacts + ";" + event.room_id
RedactKey_eventId(event) == <<event.event_id, event.room_id>>

RedactKey(event) == <<event.redacts, event.room_id>>

\* store.Get(DbEvent, {matrix_id: key}): the rows stored under key, in order
StoreGetByMatrixId(rows, key) == SelectSeq(rows, LAMBDA r : r.MatrixId = key)

\* the while (storeEvent.Next()) loop, from row i on
RECURSIVE RedactLoop(_, _, _, _)
RedactLoop(rows, i, sender, env) ==
    IF i > Len(rows) THEN [fx |-> <<>>, threw |-> FALSE]
    ELSE
        LET row == rows[i]
            lookup == [fn |-> "LookupRoom", guild |-> row.GuildId,
                       channel |-> row.ChannelId, sender |-> sender]
            fetch == [fn |-> "fetchMessage", id |-> row.DiscordId]
            del == [fn |-> "delete", id |-> row.DiscordId]
            fails == env.failAt = i
        IN  IF fails /\ env.failKind = "lookup"
            THEN [fx |-> <<lookup>>, threw |-> TRUE]
            ELSE IF fails /\ env.failKind = "fetch"
            THEN [fx |-> <<lookup, fetch>>, threw |-> TRUE]
            ELSE \* a failing msg.delete() is caught and logged; the loop goes on
                LET rest == RedactLoop(rows, i + 1, sender, env)
                IN  [fx |-> <<lookup, fetch, del>> \o rest.fx, threw |-> rest.threw]

ProcessMatrixRedact(event, cfg, rows, env) ==
    IF cfg.disableDeletionForwarding
    THEN [fx |-> <<>>, threw |-> FALSE]
    ELSE IF ~env.storeGetOk
    THEN [fx |-> <<[fn |-> "store.Get", key |-> RedactKey(event)]>>, threw |-> TRUE]
    ELSE
        LET found == StoreGetByMatrixId(rows, RedactKey(event))
            get == [fn |-> "store.Get", key |-> RedactKey(event)]
        IN  IF found = <<>>
            THEN [fx |-> <<get, [fn |-> "log.warn"]>>, threw |-> FALSE]
            ELSE LET loop == RedactLoop(found, 1, event.sender, env)
                 IN  [fx |-> <<get>> \o loop.fx, threw |-> loop.threw]

(***************************************************************************)
(* MatrixEventProcessor.OnEvent.                                           *)
(***************************************************************************)
IsStale_wrongUnit(event) == event.age > AGE_LIMIT * 1000

\* event.unsigned.age > AGE_LIMIT
IsStale(event) == event.age > AGE_LIMIT

IsInviteToBot(event) ==
    /\ event.type = "m.room.member"
    /\ event.membership = "invite"
    /\ event.state_key = BotUserId

\* ["leave", "ban"].includes(membership) && event.sender !== event.state_key
IsKickBan(event) ==
    /\ event.membership \in {"leave", "ban"}
    /\ event.sender # event.state_key

IsBotCommand_anyType(event) ==
    /\ event.body # <<>>
    /\ StartsWith(event.body, Chars("!discord"))

IsBotCommand(event) ==
    /\ event.type = "m.room.message"
    /\ event.body # <<>>
    /\ StartsWith(event.body, Chars("!discord"))

\* context.rooms.remote.roomId.substr("_discord".length).split("_", ROOM_NAME_PARTS)
SrvChanPair(roomId) == Split(Substr(roomId, DiscordPrefixLen), "_", ROOM_NAME_PARTS)

Dropped(event) == [event_id |-> event.event_id, outcome |-> "dropped"]

Handled(calls, threw) == [calls |-> calls, outcome |-> <<>>, threw |-> threw]

\* the kick/ban branch of a membership event of a remote user
KickBan_alwaysFetch(event, env) ==
    LET fetch == [fn |-> "getEvent", room |-> event.room_id, id |-> event.replaces_state]
        prev == PriorMembership(event.replaces_state)
        kick == [fn |-> "HandleMatrixKickBan", room |-> event.room_id,
                 user |-> event.state_key, sender |-> event.sender,
                 membership |-> event.membership, prevMembership |-> prev]
    IN  IF ~env.getEventOk
        THEN Handled(<<fetch>>, TRUE)
        ELSE Handled(<<fetch, kick>>, ~env.handlerOk)

KickBan(event, env) ==
    LET fetch == [fn |-> "getEvent", room |-> event.room_id, id |-> event.replaces_state]
        prev == IF event.membership = "leave"
                THEN PriorMembership(event.replaces_state) ELSE ""
        kick == [fn |-> "HandleMatrixKickBan", room |-> event.room_id,
                 user |-> event.state_key, sender |-> event.sender,
                 membership |-> event.membership, prevMembership |-> prev]
    IN  IF event.membership = "leave"
        THEN IF ~env.getEventOk
             THEN Handled(<<fetch>>, TRUE)
             ELSE Handled(<<fetch, kick>>, ~env.handlerOk)
        ELSE Handled(<<kick>>, ~env.handlerOk)

RemoteMember_fallThrough(event, env) ==
    IF IsKickBan(event) THEN KickBan(event, env)
    ELSE Handled(<<[fn |-> "ProcessStateEvent"]>>, FALSE)

\* the branch of an m.room.member event whose state_key is a remote user
RemoteMember(event, env) ==
    IF IsKickBan(event) THEN KickBan(event, env) ELSE Handled(<<>>, FALSE)

\* the branch of m.room.message and m.sticker events
MessageBranch(event, remote, env) ==
    IF IsBotCommand(event)
    THEN Handled(<<[fn |-> "Process"]>>, ~env.handlerOk)
    ELSE IF remote # NoEntry
    THEN LET pair == SrvChanPair(remote.roomId)
         IN  \* an error of ProcessMsgEvent is caught and logged
             Handled(<<[fn |-> "ProcessMsgEvent", guild |-> pair[1],
                        channel |-> pair[2], ok |-> env.handlerOk]>>, FALSE)
    ELSE Handled(<<>>, FALSE)

OnEvent(event, remote, cfg, rows, env) ==
    IF IsStale(event)
    THEN [calls |-> <<>>, outcome |-> <<Dropped(event)>>, threw |-> FALSE]
    ELSE IF IsInviteToBot(event)
    THEN Handled(<<[fn |-> "HandleInvite"]>>, ~env.handlerOk)
    ELSE IF event.type = "m.room.member" /\ isRemoteUser(event.state_key)
    THEN RemoteMember(event, env)
    ELSE IF event.type \in {"m.room.member", "m.room.name", "m.room.topic"}
    THEN Handled(<<[fn |-> "ProcessStateEvent"]>>, FALSE)
    ELSE IF event.type = "m.room.redaction" /\ remote # NoEntry
    THEN LET r == ProcessMatrixRedact(event, cfg, rows, env)
         IN  Handled(<<[fn |-> "ProcessMatrixRedact"]>> \o r.fx, r.threw)
    ELSE IF event.type \in {"m.room.message", "m.sticker"}
    THEN MessageBranch(event, remote, env)
    ELSE IF event.type = "m.room.encryption" /\ remote # NoEntry
    THEN Handled(<<[fn |-> "HandleEncryptionWarning", room |-> event.room_id]>>,
                 ~env.handlerOk)
    ELSE [calls |-> <<>>, outcome |-> <<Dropped(event)>>, threw |-> FALSE]

(***************************************************************************)
(* SpecRouter: one OnEvent call after another, each for any event, any     *)
(* answer of the collaborators, with the context the room store gives.     *)
(***************************************************************************)
NoCall == [ev |-> BaseEvent("none", 0, "!c", "@alice"), remote |-> NoEntry,
           env |-> [getEventOk |-> TRUE, storeGetOk |-> TRUE, failAt |-> 0,
                    failKind |-> "delete", handlerOk |-> TRUE],
           calls |-> <<>>, outcome |-> <<>>, threw |-> FALSE]

InitRouter ==
    /\ config \in [disableDeletionForwarding : BOOLEAN]
    /\ roomStore = InitialRoomStore
    /\ removed = {}
    /\ dbEvents = InitialDbEvents
    /\ last = NoCall
    /\ reqs = <<>>
    /\ fin = <<>>
    /\ emb = <<>>
    /\ QueueIdle
    /\ CallIdle

\* OnEvent(request, context), context.rooms.remote being the room's entry
RouteEvent ==
    /\ last = NoCall
    /\ \E event \in Events, env \in Envs :
        LET remote == roomStore[event.room_id]
            r == OnEvent(event, remote, config, dbEvents, env)
        IN  /\ last' = [ev |-> event, remote |-> remote, env |-> env,
                        calls |-> r.calls, outcome |-> r.outcome, threw |-> r.threw]
            /\ UNCHANGED <<config, roomStore, removed, dbEvents, reqs, fin>>
            /\ UNCHANGED <<embedVars, queueVars, callVars>>

\* the call has settled; the router is ready for the next event
RouteDone ==
    /\ last # NoCall
    /\ last' = NoCall
    /\ UNCHANGED <<config, roomStore, removed, dbEvents, reqs, fin>>
    /\ UNCHANGED <<embedVars, queueVars, callVars>>

NextRouter == RouteEvent \/ RouteDone

SpecRouter == InitRouter /\ [][NextRouter]_vars

(***************************************************************************)
(* Claims about OnEvent (SpecRouter).                                      *)
(***************************************************************************)
CallsOf(calls, fn) == SelectSeq(calls, LAMBDA c : c.fn = fn)

Called == last # NoCall
Fresh == last.ev.age <= AGE_LIMIT

\* C5: an event whose age is above AGE_LIMIT is dropped before any other rule:
\* no handler is invoked for it and "dropped" is recorded for its event id.
C5_StaleDropped ==
    (Called /\ last.ev.age > AGE_LIMIT) =>
        /\ last.calls = <<>>
        /\ last.outcome = <<[event_id |-> last.ev.event_id, outcome |-> "dropped"]>>
        /\ ~last.threw

\* a stale message of a bridged room, which would otherwise be delivered
C5_Witness ==
    /\ Called /\ last.ev.age = AGE_LIMIT + 1
    /\ last.ev.type = "m.room.message" /\ last.remote # NoEntry
    /\ last.ev.body = Chars("hi") /\ last.ev.event_id = "$2"
    /\ last.outcome = <<[event_id |-> "$2", outcome |-> "dropped"]>>

\* C6: a non-stale m.room.message or m.sticker event takes exactly one of three
\* actions: an m.room.message starting with "!discord" goes to the command handler
\* (bridged or not) and is not delivered; otherwise, in a bridged room, it goes to
\* ProcessMsgEvent with the guild and channel of the remote room id; otherwise
\* nothing is called.
C6_MessageDispatch ==
    LET ev == last.ev
        cmd == ev.type = "m.room.message" /\ StartsWith(ev.body, Chars("!discord"))
    IN  (Called /\ Fresh /\ ev.type \in {"m.room.message", "m.sticker"}) =>
            /\ cmd => (Len(last.calls) = 1 /\ last.calls[1].fn = "Process")
            /\ (~cmd /\ last.remote # NoEntry) =>
                  /\ Len(last.calls) = 1
                  /\ last.calls[1].fn = "ProcessMsgEvent"
                  /\ last.calls[1].guild = last.remote.discord_guild
                  /\ last.calls[1].channel = last.remote.discord_channel
            /\ (~cmd /\ last.remote = NoEntry) => last.calls = <<>>
            /\ last.outcome = <<>>

\* a sticker whose body is a command text, delivered to guild 1, channel 34
C6_Witness ==
    /\ Called /\ Fresh /\ last.ev.type = "m.sticker"
    /\ last.ev.body = Chars("!discord")
    /\ Len(last.calls) = 1 /\ last.calls[1].fn = "ProcessMsgEvent"
    /\ last.calls[1].guild = <<"1">> /\ last.calls[1].channel = <<"3", "4">>

MappedIds(ev) ==
    LET found == SelectSeq(dbEvents, LAMBDA r : r.MatrixId = <<ev.redacts, ev.room_id>>)
    IN  [i \in 1..Len(found) |-> found[i].DiscordId]

DeletedIds(calls) ==
    LET d == CallsOf(calls, "delete") IN [i \in 1..Len(d) |-> d[i].id]

RedactCase ==
    /\ Called /\ Fresh
    /\ last.ev.type = "m.room.redaction" /\ last.remote # NoEntry

StateCase ==
    /\ Called /\ Fresh
    /\ last.ev.type \in {"m.room.member", "m.room.name", "m.room.topic"}
    /\ ~(/\ last.ev.type = "m.room.member" /\ last.ev.membership = "invite"
         /\ last.ev.state_key = BotUserId)

RelayMember == last.ev.type = "m.room.member" /\ last.ev.state_key \in RemoteUsers

RelayKickBan ==
    /\ RelayMember
    /\ last.ev.membership \in {"leave", "ban"}
    /\ last.ev.sender # last.ev.state_key

\* C8 as claimed: every non-stale member/name/topic event that is neither an invite
\* to the bot nor a kick/ban of a relay identity invokes ProcessStateEvent once,
\* also a join or own leave of a relay identity.
C8_Claimed ==
    (StateCase /\ ~RelayKickBan) =>
        Len(CallsOf(last.calls, "ProcessStateEvent")) = 1

\* C8 as amended: such an event invokes ProcessStateEvent exactly once unless it is
\* a membership event of a relay identity; no membership event of a relay identity
\* (kick, ban, join or own leave) reaches ProcessStateEvent.
C8_StateSync ==
    StateCase =>
        Len(CallsOf(last.calls, "ProcessStateEvent")) = IF RelayMember THEN 0 ELSE 1

\* the own leave of a Matrix user reaches the hook
C8_Witness ==
    /\ StateCase /\ last.ev.type = "m.room.member"
    /\ last.ev.state_key = "@alice" /\ last.ev.sender = "@alice"
    /\ last.ev.membership = "leave"
    /\ last.calls = <<[fn |-> "ProcessStateEvent"]>>

KickBanCalls == CallsOf(last.calls, "HandleMatrixKickBan")

\* C9 as claimed (for non-stale events whose prior event can be fetched):
\* HandleMatrixKickBan is invoked exactly for leave/ban by another sender, and the
\* previous membership it gets is that of the prior state event.
C9_Claimed ==
    (Called /\ Fresh /\ RelayMember /\ last.env.getEventOk) =>
        /\ Len(KickBanCalls) = (IF RelayKickBan THEN 1 ELSE 0)
        /\ RelayKickBan =>
              KickBanCalls[1].prevMembership = PriorMembership(last.ev.replaces_state)

\* C9 as amended: for a non-stale membership event of a relay user,
\* HandleMatrixKickBan is invoked (once) exactly when the membership is leave or ban
\* and the sender differs from the state_key, and, for leave, the prior state event
\* could be fetched; for leave the prior event is fetched before the call and its
\* membership is passed, for ban nothing is fetched and "" is passed.
C9_KickBan ==
    (Called /\ Fresh /\ RelayMember) =>
        LET leave == last.ev.membership = "leave"
            invoked == RelayKickBan /\ (leave => last.env.getEventOk)
        IN  /\ Len(KickBanCalls) = (IF invoked THEN 1 ELSE 0)
            /\ (invoked /\ leave) =>
                  /\ Len(last.calls) = 2
                  /\ last.calls[1].fn = "getEvent"
                  /\ last.calls[1].id = last.ev.replaces_state
                  /\ last.calls[2].fn = "HandleMatrixKickBan"
                  /\ last.calls[2].prevMembership = PriorMembership(last.ev.replaces_state)
            /\ (invoked /\ ~leave) =>
                  /\ Len(last.calls) = 1
                  /\ last.calls[1].prevMembership = ""

\* an unban: a leave, by another user, of a relay user who was banned
C9_Witness ==
    /\ Called /\ Fresh /\ RelayKickBan /\ last.ev.membership = "leave"
    /\ Len(KickBanCalls) = 1 /\ KickBanCalls[1].prevMembership = "ban"

(***************************************************************************)
(* SpecRoom: OnEvent calls for message and encryption events that overlap. *)
(* A call reads context.rooms.remote when it is made and then awaits its   *)
(* collaborators; every await is a step other calls can run between.       *)
(***************************************************************************)
MaxInflight == 2

Slots == 1..MaxInflight
BridgedRooms == {r \in MxRooms : InitialRoomStore[r] # NoEntry}

Idle == [kind |-> "idle", room |-> "", pc |-> "", fx |-> <<>>, late |-> FALSE,
         afterRemoval |-> FALSE]
NoFin == [kind |-> "none", room |-> "", fx |-> <<>>, late |-> FALSE,
          threw |-> FALSE, afterRemoval |-> FALSE]

OkEnv == [getEventOk |-> TRUE, storeGetOk |-> TRUE, failAt |-> 0,
          failKind |-> "delete", handlerOk |-> TRUE]

RoomEvents ==
    { [BaseEvent(t, 0, r, "@alice") EXCEPT !.body = b] :
        t \in {"m.room.message", "m.room.encryption"}, r \in MxRooms,
        b \in {Chars("hi"), Chars("!discord")} }

\* HandleEncryptionWarning after the step at pc succeeded: the next call it makes
\* and where it then waits ("done": it returns)
EncAfter_removeBeforeLeave(pc) ==
    CASE pc = "getChannel"  -> [fx |-> <<"channel.send">>, pc |-> "discordSend"]
      [] pc = "discordSend" -> [fx |-> <<"channel.send.ok">>, pc |-> "matrixSend"]
      [] pc = "matrixSend"  -> [fx |-> <<"intent.sendMessage.ok", "removeEntries">>,
                                pc |-> "remove"]
      [] pc = "remove"      -> [fx |-> <<"removeEntries.ok", "intent.leave">>,
                                pc |-> "leave"]
      [] pc = "leave"       -> [fx |-> <<"intent.leave.ok">>, pc |-> "done"]

EncAfter(pc) ==
    CASE pc = "getChannel"  -> [fx |-> <<"channel.send">>, pc |-> "discordSend"]
      [] pc = "discordSend" -> [fx |-> <<"channel.send.ok">>, pc |-> "matrixSend"]
      [] pc = "matrixSend"  -> [fx |-> <<"intent.sendMessage.ok", "intent.leave">>,
                                pc |-> "leave"]
      [] pc = "leave"       -> [fx |-> <<"intent.leave.ok", "removeEntries">>,
                                pc |-> "remove"]
      [] pc = "remove"      -> [fx |-> <<"removeEntries.ok">>, pc |-> "done"]

Settled(req, fx, threw) ==
    [kind |-> req.kind, room |-> req.room, fx |-> fx, late |-> req.late,
     threw |-> threw, afterRemoval |-> req.afterRemoval]

InitRoom ==
    /\ config = [disableDeletionForwarding |-> FALSE]
    /\ roomStore = InitialRoomStore
    /\ removed = {}
    /\ dbEvents = InitialDbEvents
    /\ last = NoCall
    /\ reqs = [s \in Slots |-> Idle]
    /\ fin = NoFin
    /\ emb = <<>>
    /\ QueueIdle
    /\ CallIdle

RoomFrame == UNCHANGED <<config, dbEvents, last, embedVars, queueVars, callVars>>

\* OnEvent is called with an event; what it does before its first await
Receive(s, event) ==
    LET r == OnEvent(event, roomStore[event.room_id], config, dbEvents, OkEnv)
        fn == IF r.calls = <<>> THEN "" ELSE r.calls[1].fn
        late == event.room_id \in removed
        \* late: the room's entries were removed before this call was made;
        \* afterRemoval: the call has sent something after they were removed
        req == [kind |-> "", room |-> event.room_id, pc |-> "", fx |-> <<>>,
                late |-> late, afterRemoval |-> FALSE]
    IN  /\ reqs[s] = Idle
        /\ IF fn = "ProcessMsgEvent"
           THEN \* ProcessMsgEvent awaits LookupRoom
                /\ reqs' = [reqs EXCEPT ![s] =
                              [req EXCEPT !.kind = "msg", !.pc = "lookup"]]
                /\ UNCHANGED fin
           ELSE IF fn = "HandleEncryptionWarning"
           THEN \* intent.sendMessage is called, then GetChannelFromRoomId awaited
                /\ reqs' = [reqs EXCEPT ![s] =
                              [req EXCEPT !.kind = "enc", !.pc = "getChannel",
                                          !.fx = <<"intent.sendMessage">>,
                                          !.afterRemoval = late]]
                /\ UNCHANGED fin
           ELSE \* the command handler, or dropped: nothing is sent
                /\ fin' = Settled([req EXCEPT !.kind =
                                     IF fn = "Process" THEN "cmd" ELSE "drop"],
                                  <<>>, FALSE)
                /\ UNCHANGED reqs
        /\ UNCHANGED <<roomStore, removed>>
        /\ RoomFrame

\* ProcessMsgEvent: LookupRoom, EventToEmbed and HandleAttachment have answered
MsgPrepared(s, ok) ==
    /\ reqs[s].kind = "msg" /\ reqs[s].pc = "lookup"
    /\ IF ok
       THEN \* discord.send is called
            /\ reqs' = [reqs EXCEPT ![s].pc = "send",
                                    ![s].fx = @ \o <<"discord.send">>,
                                    ![s].afterRemoval = reqs[s].room \in removed]
            /\ UNCHANGED fin
       ELSE \* caught and logged by OnEvent
            /\ reqs' = [reqs EXCEPT ![s] = Idle]
            /\ fin' = Settled(reqs[s], reqs[s].fx \o <<"log.warn">>, FALSE)
    /\ UNCHANGED <<roomStore, removed>>
    /\ RoomFrame

\* discord.send has answered; a failure is caught and logged by OnEvent
MsgSent(s, ok) ==
    /\ reqs[s].kind = "msg" /\ reqs[s].pc = "send"
    /\ reqs' = [reqs EXCEPT ![s] = Idle]
    /\ fin' = Settled(reqs[s],
                      reqs[s].fx \o (IF ok THEN <<"discord.send.ok">> ELSE <<"log.warn">>),
                      FALSE)
    /\ UNCHANGED <<roomStore, removed>>
    /\ RoomFrame

\* an awaited call of HandleEncryptionWarning failed: OnEvent catches the error and
\* throws "Failed to handle encrypted room"
EncFailed_swallowed(req) == Settled(req, req.fx, FALSE)

EncFailed(req) == Settled(req, req.fx, TRUE)

\* HandleEncryptionWarning: the call awaited at pc has answered
EncStep(s, ok) ==
    LET req == reqs[s]
        \* GetChannelFromRoomId rejects when the room has no entries
        good == ok /\ (req.pc = "getChannel" => roomStore[req.room] # NoEntry)
        next == EncAfter(req.pc)
        fx == req.fx \o next.fx
    IN  /\ req.kind = "enc"
        /\ IF ~good
           THEN \* OnEvent throws "Failed to handle encrypted room"
                /\ reqs' = [reqs EXCEPT ![s] = Idle]
                /\ fin' = EncFailed(req)
                /\ UNCHANGED <<roomStore, removed>>
           ELSE /\ IF next.pc = "done"
                   THEN /\ reqs' = [reqs EXCEPT ![s] = Idle]
                        /\ fin' = Settled(req, fx, FALSE)
                   ELSE /\ reqs' = [reqs EXCEPT
                                      ![s].pc = next.pc, ![s].fx = fx,
                                      ![s].afterRemoval =
                                          @ \/ (/\ req.pc = "getChannel"
                                                /\ req.room \in removed)]
                        /\ UNCHANGED fin
                /\ IF req.pc = "remove"
                   THEN /\ roomStore' = [roomStore EXCEPT ![req.room] = NoEntry]
                        /\ removed' = removed \cup {req.room}
                   ELSE UNCHANGED <<roomStore, removed>>
        /\ RoomFrame

NextRoom ==
    \/ \E s \in Slots, event \in RoomEvents : Receive(s, event)
    \/ \E s \in Slots, ok \in BOOLEAN : MsgPrepared(s, ok)
    \/ \E s \in Slots, ok \in BOOLEAN : MsgSent(s, ok)
    \/ \E s \in Slots, ok \in BOOLEAN : EncStep(s, ok)

SpecRoom == InitRoom /\ [][NextRoom]_vars

(***************************************************************************)
(* Claims about encryption handling (SpecRoom).                            *)
(***************************************************************************)
EncryptionSequence ==
    << "intent.sendMessage", "channel.send", "channel.send.ok",
       "intent.sendMessage.ok", "intent.leave", "intent.leave.ok",
       "removeEntries", "removeEntries.ok" >>

\* every OnEvent call the model still knows: those in flight and the last settled
CallView(c) ==
    [kind |-> c.kind, room |-> c.room, fx |-> c.fx, late |-> c.late,
     afterRemoval |-> c.afterRemoval]

KnownCalls == {CallView(reqs[s]) : s \in Slots} \cup {CallView(fin)}

EncryptionInOrder ==
    (fin.kind = "enc" /\ ~fin.threw) =>
        /\ fin.fx = EncryptionSequence
        /\ fin.room \in removed
        /\ roomStore[fin.room] = NoEntry

IsPrefix(a, b) == Len(a) <= Len(b) /\ SubSeq(b, 1, Len(a)) = a

\* the calls of the sequence made before its last step, removeEntries, answers
BeforeRemoval == SubSeq(EncryptionSequence, 1, Len(EncryptionSequence) - 1)

\* a step that changes the room store is the last step of a sequence that succeeded
RemovalCompletes ==
    roomStore' # roomStore =>
        /\ \E s \in Slots : reqs[s].kind = "enc" /\ reqs[s].fx = BeforeRemoval
        /\ fin'.kind = "enc" /\ ~fin'.threw /\ fin'.fx = EncryptionSequence

\* C11: when a step of encryption handling fails (channel lookup, a warning send,
\* leaving, removing the entries) OnEvent rejects; the calls it made are the
\* sequence up to the failed step and nothing after it; the room's entries are
\* removed only by a sequence of which every step succeeded.
C11_EncryptionFails ==
    /\ [](fin.kind = "enc" =>
            /\ IsPrefix(fin.fx, EncryptionSequence)
            /\ fin.threw <=> fin.fx # EncryptionSequence)
    /\ [][RemovalCompletes]_vars

\* C11 witness: leaving the room failed; OnEvent threw, the entries are still there
C11_Witness ==
    /\ fin.kind = "enc" /\ fin.threw
    /\ fin.fx = SubSeq(EncryptionSequence, 1, 5)
    /\ roomStore[fin.room] # NoEntry
    /\ fin.room \notin removed

(***************************************************************************)
(* SpecEmbed: MatrixEventProcessor.EventToEmbed and GetEmbedForReply on a  *)
(* chain of Matrix events, each replying (or not) to the one before it.    *)
(***************************************************************************)
MaxChain == 3

ChainIds == 1..MaxChain
NoEmbed == [description |-> <<>>, author |-> "", fields |-> <<>>,
            timestamp |-> 0, image |-> ""]
UnknownContent_body == "body"

UnknownContent == "Reply with unknown content"

\* a Matrix event of the chain: event k's m.in_reply_to, when it has one, is
\* event k - 1 (event 0 is on no server: fetching it fails)
ChainEvent ==
    [sender : {"@alice", "@_discord_1"}, replies : BOOLEAN,
     msgtype : {"m.text", "m.image", "m.file"}]

Chains == [ChainIds -> ChainEvent]

BodyOf(id) == <<"body", id>>
UrlOf(id) == <<"url", id>>

\* new MatrixUser(sender.replace("@", "")).localpart.substring("_discord".length)
UidOf(sender) == IF sender = "@_discord_1" THEN "1" ELSE sender

HasAttachment(ev) ==
    ev.msgtype \in {"m.image", "m.audio", "m.video", "m.file", "m.sticker"}

\* index of the first field named name, 0 when there is none
RECURSIVE FieldIndex(_, _, _)
FieldIndex(fields, name, i) ==
    IF i > Len(fields) THEN 0
    ELSE IF fields[i].name = name THEN i
    ELSE FieldIndex(fields, name, i + 1)

\* a splice that removes nothing
Splice_none(fields, i) == fields

\* fields.splice(i, 1)
Splice(fields, i) == SubSeq(fields, 1, i - 1) \o SubSeq(fields, i + 1, Len(fields))

\* the getReply flag GetEmbedForReply passes to the nested EventToEmbed
NestedGetReply_true == TRUE

NestedGetReply == FALSE

RECURSIVE EventToEmbed(_, _, _, _)
RECURSIVE GetEmbedForReply(_, _, _)

\* returns the reply embed (NoEmbed: undefined) and the ids given to intent.getEvent
GetEmbedForReply(chain, id, getEventOk) ==
    LET fallback == [NoEmbed EXCEPT !.description = <<UnknownContent>>,
                                    !.author = "Unknown"]
        src == id - 1
    IN  IF ~chain[id].replies
        THEN [embed |-> NoEmbed, fetched |-> <<>>]
        ELSE IF src = 0 \/ ~getEventOk
        THEN [embed |-> fallback, fetched |-> <<src>>]
        ELSE
            LET inner == EventToEmbed(chain, src, NestedGetReply, getEventOk)
                e0 == inner.messageEmbed
                e1 == IF isRemoteUser(chain[src].sender)
                      THEN [e0 EXCEPT !.fields = @ \o
                              <<[name |-> "ping",
                                 value |-> <<"<@", UidOf(chain[src].sender), ">">>]>>]
                      ELSE e0
                e2 == [e1 EXCEPT !.timestamp = src]
                e3 == IF ~HasAttachment(chain[src]) THEN e2
                      ELSE IF chain[src].msgtype \in {"m.image", "m.sticker"}
                      THEN [e2 EXCEPT !.image = UrlOf(src)]
                      ELSE [e2 EXCEPT !.description = <<"[", "name", "](", UrlOf(src), ")">>]
            IN  [embed |-> e3, fetched |-> <<src>> \o inner.fetched]

EventToEmbed(chain, id, getReply, getEventOk) ==
    LET ev == chain[id]
        messageEmbed == [NoEmbed EXCEPT !.description = <<BodyOf(id)>>,
                                        !.author = ev.sender]
        reply == IF getReply THEN GetEmbedForReply(chain, id, getEventOk)
                 ELSE [embed |-> NoEmbed, fetched |-> <<>>]
        ping == FieldIndex(reply.embed.fields, "ping", 1)
    IN  IF reply.embed # NoEmbed /\ ping # 0
        THEN [messageEmbed |->
                 [messageEmbed EXCEPT !.description =
                     @ \o <<"\n(">> \o reply.embed.fields[ping].value \o <<")">>],
              replyEmbed |->
                 [reply.embed EXCEPT !.fields = Splice(@, ping)],
              fetched |-> reply.fetched]
        ELSE [messageEmbed |-> messageEmbed, replyEmbed |-> reply.embed,
              fetched |-> reply.fetched]

NoEmb == [chain |-> <<>>, getReply |-> FALSE, getEventOk |-> FALSE,
          result |-> [messageEmbed |-> NoEmbed, replyEmbed |-> NoEmbed,
                      fetched |-> <<>>]]

InitEmbed ==
    /\ config = [disableDeletionForwarding |-> FALSE]
    /\ roomStore = InitialRoomStore
    /\ removed = {}
    /\ dbEvents = InitialDbEvents
    /\ last = NoCall
    /\ reqs = <<>>
    /\ fin = NoFin
    /\ emb = NoEmb
    /\ QueueIdle
    /\ CallIdle

\* EventToEmbed(event, channel, getReply) for the newest event of a chain
ConvertEvent ==
    /\ emb = NoEmb
    /\ \E chain \in Chains, getReply \in BOOLEAN, getEventOk \in BOOLEAN :
          emb' = [chain |-> chain, getReply |-> getReply, getEventOk |-> getEventOk,
                  result |-> EventToEmbed(chain, MaxChain, getReply, getEventOk)]
    /\ UNCHANGED <<routerVars, queueVars, callVars>>

\* the result was returned to the caller
ConvertDone ==
    /\ emb # NoEmb
    /\ emb' = NoEmb
    /\ UNCHANGED <<routerVars, queueVars, callVars>>

NextEmbed == ConvertEvent \/ ConvertDone

SpecEmbed == InitEmbed /\ [][NextEmbed]_vars

(***************************************************************************)
(* Claims about reply rendering (SpecEmbed).                               *)
(***************************************************************************)
Converted == emb # NoEmb
Top == emb.chain[MaxChain]
Source == emb.chain[MaxChain - 1]

\* C4: for any depth of the reply chain at most one referenced event is fetched,
\* and only when EventToEmbed was called with getReply = true; the reply embed is
\* built from the referenced event alone: it carries nothing of that event's own
\* reply (no quoted context, no mention added for it) and no reply is resolved
\* for it.
C4_OneLevel ==
    Converted =>
        LET r == emb.result
            resolves == emb.getReply /\ Top.replies
        IN  /\ r.fetched = (IF resolves THEN <<MaxChain - 1>> ELSE <<>>)
            /\ ~resolves => r.replyEmbed = NoEmbed
            /\ (resolves /\ emb.getEventOk) =>
                  /\ r.replyEmbed.timestamp = MaxChain - 1
                  /\ r.replyEmbed.author = Source.sender
                  /\ r.replyEmbed.fields = <<>>
                  /\ r.replyEmbed.description \in
                        { <<BodyOf(MaxChain - 1)>>,
                          <<"[", "name", "](", UrlOf(MaxChain - 1), ")">> }

\* a reply to a reply to a reply, the two older senders being Discord users
C4_Witness ==
    /\ Converted /\ emb.getReply /\ emb.getEventOk
    /\ \A k \in ChainIds : emb.chain[k].replies
    /\ emb.chain[MaxChain - 1].sender = "@_discord_1"
    /\ emb.chain[MaxChain - 2].sender = "@_discord_1"
    /\ emb.result.fetched = <<MaxChain - 1>>
    /\ emb.result.replyEmbed.description = <<BodyOf(MaxChain - 1)>>

\* C17: when the event a reply refers to cannot be fetched, the reply embed is
\* the fallback (description "Reply with unknown content", author "Unknown",
\* nothing else) and EventToEmbed still returns the message's own embed with
\* its body unchanged; an event that replies to nothing gets no reply embed.
C17_UnknownReply ==
    Converted =>
        LET r == emb.result IN
        /\ (emb.getReply /\ Top.replies /\ ~emb.getEventOk) =>
              /\ r.replyEmbed = [description |-> <<"Reply with unknown content">>,
                                 author |-> "Unknown", fields |-> <<>>,
                                 timestamp |-> 0, image |-> ""]
              /\ r.messageEmbed = [NoEmbed EXCEPT !.description = <<BodyOf(MaxChain)>>,
                                                  !.author = Top.sender]
        /\ ~Top.replies =>
              /\ r.replyEmbed = NoEmbed
              /\ r.messageEmbed.description = <<BodyOf(MaxChain)>>

\* a reply to a Discord user's message that the homeserver does not return
C17_Witness ==
    /\ Converted /\ emb.getReply /\ ~emb.getEventOk
    /\ Top.replies /\ Source.sender = "@_discord_1"
    /\ emb.result.fetched = <<MaxChain - 1>>
    /\ emb.result.replyEmbed.author = "Unknown"
    /\ emb.result.messageEmbed.description = <<BodyOf(MaxChain)>>

\* the mention of the Discord user 1, as appended to a description
Mention == <<"\n(", "<@", "1", ">", ")">>

\* the reply was resolved: asked for, present, fetched and rendered
Resolved == emb.getReply /\ Top.replies /\ emb.getEventOk

\* C36 (as claimed): when the sender of the replied-to event is a Discord user
\* the message embed's description ends with one mention of that user and the
\* reply embed has no field named ping; otherwise there is no mention.
C36_Claimed ==
    Converted =>
        LET r == emb.result IN
        /\ FieldIndex(r.replyEmbed.fields, "ping", 1) = 0
        /\ r.messageEmbed.description =
              <<BodyOf(MaxChain)>> \o
              (IF Top.replies /\ Source.sender = "@_discord_1" THEN Mention ELSE <<>>)

\* C36 (amended): that holds when the reply was resolved, that is EventToEmbed was
\* called with getReply = true and the replied-to event was fetched and
\* rendered; when it was not, no mention is added whoever the sender is.
C36_MentionedOnce ==
    Converted =>
        LET r == emb.result IN
        /\ FieldIndex(r.replyEmbed.fields, "ping", 1) = 0
        /\ r.messageEmbed.description =
              <<BodyOf(MaxChain)>> \o
              (IF Resolved /\ Source.sender = "@_discord_1" THEN Mention ELSE <<>>)

\* a reply to a file a Discord user had sent in reply to another Discord user
C36_Witness ==
    /\ Converted /\ Resolved
    /\ Source.sender = "@_discord_1" /\ Source.msgtype = "m.file" /\ Source.replies
    /\ emb.chain[MaxChain - 2].sender = "@_discord_1"
    /\ emb.result.messageEmbed.description = <<BodyOf(MaxChain)>> \o Mention
    /\ emb.result.replyEmbed.fields = <<>>
    /\ emb.result.replyEmbed.description # <<BodyOf(MaxChain - 1)>>


(***************************************************************************)
(* The Discord side (DiscordBot): gateway events, Bluebird.delay, the      *)
(* per-channel promise chain discordMessageQueue and the handlers          *)
(* OnMessage, OnMessageUpdate and DeleteDiscordMessage.                    *)
(***************************************************************************)
MaxEvents == 2
MaxBridgeSends == 1

BotId == "bot"
NoWebhook == "null"
Hole == 0

\* the rooms channelSync.GetRoomIdsFromChannel(msg.channel) resolves to
GetRoomIdsFromChannel(ch) ==
    IF ch = "2" THEN <<"!a">>
    ELSE IF ch = WideChannel THEN <<"!c", "!d">>
    ELSE <<"!b">>

\* provisioner.HasPendingRequest(chan)
HasPendingRequest(ch) == ch = "34"

\* a Discord.Message as the handlers read it
Message(id, ch, author, webhookID, content, attachments) ==
    [id |-> id, channel |-> ch, author |-> author, webhookID |-> webhookID,
     content |-> content, attachments |-> attachments]

\* what Discord users post: a text or a file
UserMessages(id) ==
    {Message(id, ch, "user", NoWebhook, "hi", 0) : ch \in Channels \ {WideChannel}}
    \cup {Message(id, ch, "user", NoWebhook, "", 1) : ch \in Channels \ {WideChannel}}

\* other traffic of a channel: a bot command, an answer to a bridge request,
\* a message of somebody else's webhook
OtherMessages(id) ==
    {Message(id, "34", "user", NoWebhook, c, 0) : c \in {"!matrix", "!approve"}}
    \cup {Message(id, "2", "hook", "other", "hi", 0)}

\* what ProcessMatrixMsgEvent posts: through the puppeted user's client
\* (botUser false), through the "_matrix" webhook, or as the bot itself
BridgeMessages(id) ==
    {Message(id, "2", "user", NoWebhook, "hi", 0),
     Message(id, "2", "hook", "_matrix", "hi", 0),
     Message(id, "2", BotId, NoWebhook, "", 0)}

GatewayEvent(kind, msg) == [kind |-> kind, msg |-> msg]

Task(ev, pred) ==
    [ev |-> ev, pred |-> pred, pc |-> "waiting", fx |-> <<>>, threw |-> FALSE,
     listed |-> FALSE, recorded |-> FALSE, todo |-> <<>>]

\* Array.prototype.indexOf from position i (1-based; 0 when absent)
RECURSIVE IndexOf(_, _, _)
IndexOf_absent(arr, x, i) == 0

IndexOf(arr, x, i) ==
    IF i > Len(arr) THEN 0
    ELSE IF arr[i] = x THEN i
    ELSE IndexOf(arr, x, i + 1)

\* the promise a newly chained task awaits first:
\* this.discordMessageQueue[channel.id] || Promise.resolve()
Awaited_resolved(ch) == 0

\* one chain for all channels: the newest task, of whatever channel
Awaited_any(ch) == Len(tasks)

Awaited(ch) == queue[ch]

Settle(task) == [task EXCEPT !.pc = "settled", !.todo = <<>>]

\* a handler that throws with no catch around it: the chained promise rejects
Throw_rejected(task) == [task EXCEPT !.pc = "rejected", !.todo = <<>>, !.threw = TRUE]

\* the handler throws: the catch of the chained function logs the error and the
\* promise of the task fulfils
Throw(task) == [task EXCEPT !.pc = "settled", !.todo = <<>>, !.threw = TRUE]

Call(task, name, arg, pc) ==
    [task EXCEPT !.fx = Append(@, <<name, arg>>), !.pc = pc]

\* OnMessage after the echo, bot and webhook filters
AfterFilters(task) ==
    LET m == task.ev.msg IN
    IF m.content \in {"!approve", "!deny"} /\ HasPendingRequest(m.channel)
    THEN Call(task, "MarkApproved", <<>>, "approve")
    ELSE IF m.content = "!matrix"
    THEN Call(task, "HandleDiscordCommand", <<>>, "command")
    ELSE Call(task, "OnUpdateUser", <<>>, "userSync")

\* OnMessage without the check of the author
OnMessageStart_anyAuthor(task, sent) ==
    LET m == task.ev.msg
        indexOfMsg == IndexOf(sent, m.id, 1)
    IN  IF indexOfMsg # 0
        THEN [task |-> Settle(task), sent |-> [sent EXCEPT ![indexOfMsg] = Hole]]
        ELSE IF m.webhookID # NoWebhook
        THEN [task |-> Call(task, "fetchWebhooks", <<>>, "fetchWebhooks"), sent |-> sent]
        ELSE [task |-> AfterFilters(task), sent |-> sent]

\* OnMessage up to its first await: [task, sent]
OnMessageStart(task, sent) ==
    LET m == task.ev.msg
        indexOfMsg == IndexOf(sent, m.id, 1)
    IN  IF indexOfMsg # 0
        THEN [task |-> Settle(task), sent |-> [sent EXCEPT ![indexOfMsg] = Hole]]
        ELSE IF m.author = BotId
        THEN [task |-> Settle(task), sent |-> sent]
        ELSE IF m.webhookID # NoWebhook
        THEN [task |-> Call(task, "fetchWebhooks", <<>>, "fetchWebhooks"), sent |-> sent]
        ELSE [task |-> AfterFilters(task), sent |-> sent]

\* store.Get(DbEvent, {discord_id})
StoreGetByDiscordId(rows, id) ==
    SelectSeq(rows, LAMBDA r : r.DiscordId = id)

\* a handler continues after the call it awaited returned (ok) or failed
AfterAwait(task, ok, rows) ==
    LET m == task.ev.msg IN
    CASE task.pc = "fetchWebhooks" ->
            IF ~ok THEN Throw(task)
            ELSE IF m.webhookID = "_matrix" THEN Settle(task)
            ELSE AfterFilters(task)
      [] task.pc = "approve" ->
            IF ok THEN Settle(Call(task, "channel.sendMessage", <<>>, "approve"))
            ELSE Settle(task)
      [] task.pc = "command" -> IF ok THEN Settle(task) ELSE Throw(task)
      [] task.pc = "userSync" ->
            IF ok THEN Call(task, "GetRoomIdsFromChannel", <<>>, "rooms")
            ELSE Settle(task)
      [] task.pc = "rooms" -> Settle(task)
      [] task.pc = "get" ->
            IF ~ok THEN Throw(task)
            ELSE LET found == StoreGetByDiscordId(rows, m.id) IN
                 IF found = <<>> THEN Settle(task)
                 ELSE [Call(task, "redactEvent", found[1].MatrixId, "redact")
                          EXCEPT !.todo = found]
      [] task.pc = "redact" ->
            IF ~ok THEN Throw(task)
            ELSE IF Len(task.todo) = 1 THEN Settle(task)
            ELSE [Call(task, "redactEvent", task.todo[2].MatrixId, "redact")
                     EXCEPT !.todo = Tail(@)]

\* the promises OnMessage leaves behind when the room list arrived
Detached(t, m) ==
    {[op |-> "upload", t |-> t, room |-> ""] : a \in 1..m.attachments}
    \cup (IF m.content # "" THEN {[op |-> "format", t |-> t, room |-> ""]} ELSE {})

\* how a detached call can end
Outcomes(op) == IF op = "send" THEN {"ok", "fail", "forbidden"} ELSE {"ok", "fail"}

Range(seq) == {seq[i] : i \in DOMAIN seq}

\* intent.sendMessage(room, ...) is called for task t in every room of the list
SendAll(log, t, what, rooms) ==
    [r \in TargetRooms |->
        IF r \in Range(rooms) THEN Append(log[r], [t |-> t, what |-> what]) ELSE log[r]]

\* afterSend: the DbEvent stored for a delivered message
Delivered(f) ==
    Row(<<"$", f.t, f.op>>, f.room, tasks[f.t].ev.msg.id, <<"1">>, tasks[f.t].ev.msg.channel)

InitQueue ==
    /\ config = [disableDeletionForwarding |-> FALSE]
    /\ roomStore = InitialRoomStore
    /\ removed = {}
    /\ dbEvents = <<>>
    /\ last = NoCall
    /\ reqs = <<>>
    /\ fin = NoFin
    /\ emb = NoEmb
    /\ QueueIdle
    /\ CallIdle

QueueFrame == UNCHANGED <<config, roomStore, removed, last, reqs, fin, embedVars,
                         callVars>>

\* a message posted before the bridge was started
Earlier == Message(999, "2", "user", NoWebhook, "hi", 0)

\* messages an edit or a deletion can be announced for
Known == {Earlier} \cup {timers[i].msg : i \in DOMAIN timers} \cup {tasks[i].ev.msg : i \in DOMAIN tasks}

\* client.on(...): the listener runs up to await Bluebird.delay(discordSendDelay)
Emit(ev) ==
    /\ gw < MaxEvents
    /\ gw' = gw + 1
    /\ timers' = Append(timers, ev)
    /\ UNCHANGED <<queue, tasks, sentMessages, everSent, bridgeSends, flight, roomLog, logged,
                   dbEvents>>
    /\ QueueFrame

\* 'message' for a message somebody posted on Discord
GatewayPost == \E m \in UserMessages(gw + 1) : Emit(GatewayEvent("message", m))

\* 'message' for other traffic
GatewayOther == \E m \in OtherMessages(gw + 1) : Emit(GatewayEvent("message", m))

\* 'message' for a message the bridge posted (Discord may announce it again)
GatewayEcho ==
    \E i \in DOMAIN bridgeSends : Emit(GatewayEvent("message", bridgeSends[i].msg))

\* 'messageUpdate' / 'messageDelete' for an announced message
GatewayChange ==
    \E kind \in {"messageUpdate", "messageDelete"}, m \in Known :
        Emit(GatewayEvent(kind, m))

\* the delay elapsed: the task is chained behind the channel's last task
DelayElapsed ==
    /\ timers # <<>>
    /\ LET ev == Head(timers)
           ch == ev.msg.channel
       IN  /\ tasks' = Append(tasks, Task(ev, Awaited(ch)))
           /\ queue' = [queue EXCEPT ![ch] = Len(tasks) + 1]
    /\ timers' = Tail(timers)
    /\ UNCHANGED <<gw, sentMessages, everSent, bridgeSends, flight, roomLog, logged, dbEvents>>
    /\ QueueFrame

\* the awaited promise has settled: the handler runs up to its first await
Start(t) ==
    /\ tasks[t].pc = "waiting"
    /\ IF tasks[t].pred = 0 THEN TRUE ELSE tasks[tasks[t].pred].pc = "settled"
    /\ LET task == [tasks[t] EXCEPT !.listed = tasks[t].ev.msg.id \in Range(sentMessages),
                                    !.recorded = tasks[t].ev.msg.id \in everSent]
           r == CASE task.ev.kind = "message" -> OnMessageStart(task, sentMessages)
                  [] task.ev.kind = "messageUpdate" ->
                        [task |-> Settle(task), sent |-> sentMessages]
                  [] task.ev.kind = "messageDelete" ->
                        [task |-> Call(task, "store.Get", <<>>, "get"),
                         sent |-> sentMessages]
       IN  /\ tasks' = [tasks EXCEPT ![t] = r.task]
           /\ sentMessages' = r.sent
    /\ UNCHANGED <<gw, timers, queue, everSent, bridgeSends, flight, roomLog, logged, dbEvents>>
    /\ QueueFrame

\* the call a running handler awaits returns or fails
Step(t, ok) ==
    /\ tasks[t].pc \notin {"waiting", "settled"}
    /\ tasks' = [tasks EXCEPT ![t] = AfterAwait(tasks[t], ok, dbEvents)]
    /\ flight' = IF tasks[t].pc = "rooms" /\ ok
                 THEN flight \cup Detached(t, tasks[t].ev.msg)
                 ELSE flight
    /\ UNCHANGED <<gw, timers, queue, sentMessages, everSent, bridgeSends, roomLog, logged,
                   dbEvents>>
    /\ QueueFrame

\* EnsureJoin(...).then(() => trySend()).then(afterSend): the second send has no
\* catch of its own
Resend_caught(f) == [f EXCEPT !.op = "send"]

Resend(f) == [f EXCEPT !.op = "resend"]

\* a promise nobody awaits settles: upload / format, then the sends
Resolve(f, outcome) ==
    LET rooms == GetRoomIdsFromChannel(tasks[f.t].ev.msg.channel)
        rest == flight \ {f}
    IN
    /\ f \in flight
    /\ outcome \in Outcomes(f.op)
    /\ CASE f.op \in {"upload", "format"} /\ outcome = "ok" ->
              /\ roomLog' = SendAll(roomLog, f.t, f.op, rooms)
              /\ flight' = rest \cup
                    {[op |-> IF f.op = "upload" THEN "fileSend" ELSE "send",
                      t |-> f.t, room |-> rooms[i]] : i \in DOMAIN rooms}
              /\ UNCHANGED dbEvents
         [] f.op = "send" /\ outcome = "fail" ->
              /\ logged' = logged \cup {f}
              /\ flight' = rest
              /\ UNCHANGED <<roomLog, dbEvents>>
         [] f.op \in {"fileSend", "send", "resend"} /\ outcome = "ok" ->
              /\ dbEvents' = Append(dbEvents, Delivered(f))
              /\ flight' = rest
              /\ UNCHANGED roomLog
         [] f.op = "send" /\ outcome = "forbidden" ->
              /\ flight' = rest \cup {[f EXCEPT !.op = "join"]}
              /\ UNCHANGED <<roomLog, dbEvents>>
         [] f.op = "join" /\ outcome = "ok" ->
              /\ roomLog' = SendAll(roomLog, f.t, "format", <<f.room>>)
              /\ flight' = rest \cup {Resend(f)}
              /\ UNCHANGED dbEvents
         [] OTHER ->
              /\ flight' = rest
              /\ UNCHANGED <<roomLog, dbEvents>>
    /\ IF f.op = "send" /\ outcome = "fail" THEN TRUE ELSE UNCHANGED logged
    /\ UNCHANGED <<gw, timers, queue, tasks, sentMessages, everSent, bridgeSends>>
    /\ QueueFrame

\* ProcessMatrixMsgEvent calls chan.send / hook.send
BridgeSend ==
    /\ Len(bridgeSends) < MaxBridgeSends
    /\ \E m \in BridgeMessages(0 - (Len(bridgeSends) + 1)) :
          bridgeSends' = Append(bridgeSends, [msg |-> m, st |-> "sending"])
    /\ UNCHANGED <<gw, timers, queue, tasks, sentMessages, everSent, flight, roomLog, logged,
                   dbEvents>>
    /\ QueueFrame

\* the send call returns the posted message: its id is pushed onto sentMessages
\* and the mapping is stored
BridgeReturn(i) ==
    /\ bridgeSends[i].st = "sending"
    /\ bridgeSends' = [bridgeSends EXCEPT ![i].st = "sent"]
    /\ sentMessages' = Append(sentMessages, bridgeSends[i].msg.id)
    /\ everSent' = everSent \cup {bridgeSends[i].msg.id}
    /\ dbEvents' = Append(dbEvents,
           Row(<<"$", 0, "matrix">>, "!a", bridgeSends[i].msg.id, <<"1">>, "2"))
    /\ UNCHANGED <<gw, timers, queue, tasks, flight, roomLog, logged>>
    /\ QueueFrame

\* the chain and the handlers, whatever the gateway announces
Handlers ==
    \/ DelayElapsed
    \/ \E t \in DOMAIN tasks : Start(t)
    \/ \E t \in DOMAIN tasks, ok \in BOOLEAN : Step(t, ok)
    \/ \E f \in flight, outcome \in {"ok", "fail", "forbidden"} : Resolve(f, outcome)

\* messages of Discord users, other traffic, edits and deletions
NextQueue ==
    \/ GatewayPost
    \/ GatewayOther
    \/ GatewayChange
    \/ Handlers

SpecQueue == InitQueue /\ [][NextQueue]_vars

\* messages the bridge itself posts and the events Discord announces for them
NextEcho ==
    \/ BridgeSend
    \/ \E i \in DOMAIN bridgeSends : BridgeReturn(i)
    \/ GatewayEcho
    \/ Handlers

SpecEcho == InitQueue /\ [][NextEcho]_vars

\* 'message' for a message of somebody else's webhook
GatewayHook ==
    \E m \in OtherMessages(gw + 1) : m.webhookID # NoWebhook /\ Emit(GatewayEvent("message", m))

\* ProcessMatrixMsgEvent calls hook.send, or chan.send as the bot
HookSend ==
    /\ Len(bridgeSends) < MaxBridgeSends
    /\ \E m \in BridgeMessages(0 - (Len(bridgeSends) + 1)) :
          /\ m.author = BotId \/ m.webhookID # NoWebhook
          /\ bridgeSends' = Append(bridgeSends, [msg |-> m, st |-> "sending"])
    /\ UNCHANGED <<gw, timers, queue, tasks, sentMessages, everSent, flight, roomLog, logged,
                   dbEvents>>
    /\ QueueFrame

\* the messages the bridge posts next to those of another webhook
NextFilter ==
    \/ HookSend
    \/ \E i \in DOMAIN bridgeSends : BridgeReturn(i)
    \/ GatewayEcho
    \/ GatewayHook
    \/ Handlers

SpecFilter == InitQueue /\ [][NextFilter]_vars

(***************************************************************************)
(* Claims about the promise chain (SpecQueue) and the echo filter          *)
(* (SpecEcho).                                                             *)
(***************************************************************************)
Started(t) == tasks[t].pc # "waiting"
HasSettled(t) == tasks[t].pc = "settled"
ChannelOf(t) == tasks[t].ev.msg.channel
Earliers(t) == {u \in DOMAIN tasks : u < t /\ ChannelOf(u) = ChannelOf(t)}

\* C1: per channel the chained handlers (OnMessage, OnMessageUpdate,
\* DeleteDiscordMessage) run one at a time: a task has started only if every task
\* chained earlier on the same channel has settled, by returning or by throwing.
C1_OneAtATime ==
    \A t \in DOMAIN tasks :
        Started(t) => \A u \in Earliers(t) : HasSettled(u)

\* C1 witness: a handler threw, and the next task of the same channel has started
C1_Witness ==
    \E t \in DOMAIN tasks :
        /\ Started(t)
        /\ \E u \in Earliers(t) : tasks[u].threw /\ HasSettled(u)

\* the intent.sendMessage calls of a room follow the order the messages arrived in
InArrivalOrder(log) ==
    \A i, j \in DOMAIN log : i < j => log[i].t <= log[j].t

\* C2 (as claimed): every bridged room sees the sends of a channel's messages in
\* the order the messages arrived, whatever the latencies of formatting, upload
\* and send.
C2_Claimed == \A r \in TargetRooms : InArrivalOrder(roomLog[r])

\* the calls OnMessage makes for a message it does not drop
Processing ==
    {"OnUpdateUser", "GetRoomIdsFromChannel", "HandleDiscordCommand", "MarkApproved"}

Processed(t) ==
    \/ \E i \in DOMAIN tasks[t].fx : tasks[t].fx[i][1] \in Processing
    \/ \E f \in flight : f.t = t
    \/ \E r \in TargetRooms : \E i \in DOMAIN roomLog[r] : roomLog[r][i].t = t

MessageTasks == {t \in DOMAIN tasks : tasks[t].ev.kind = "message" /\ Started(t)}

\* C3 (as claimed): a 'message' event whose id was ever pushed onto sentMessages is
\* dropped without user sync, room lookup, command handling or Matrix send,
\* however many events with that id arrive.
C3_Claimed ==
    \A t \in MessageTasks : tasks[t].recorded => ~Processed(t)

Occurrences(arr, x) == Cardinality({i \in DOMAIN arr : arr[i] = x})
Suppressed(id) == {t \in MessageTasks : tasks[t].listed /\ tasks[t].ev.msg.id = id}

\* C3: a 'message' event whose id is an element of sentMessages when OnMessage
\* runs is dropped at once, before any call is made for it, and that element is
\* deleted: every recorded id suppresses exactly one event.
C3_EchoDropped ==
    /\ \A t \in MessageTasks :
          tasks[t].listed =>
              tasks[t].fx = <<>> /\ HasSettled(t) /\ ~tasks[t].threw /\ ~Processed(t)
    /\ \A id \in everSent :
          Cardinality(Suppressed(id)) + Occurrences(sentMessages, id) = 1

\* C3 witness: the first event for a recorded id was dropped, the second one was
\* not and OnMessage went on to handle it
C3_Witness ==
    \E t, u \in MessageTasks :
        /\ tasks[t].ev.msg.id = tasks[u].ev.msg.id
        /\ tasks[t].listed /\ HasSettled(t)
        /\ tasks[u].recorded /\ ~tasks[u].listed /\ Processed(u)

\* the task the chained function of t awaits is no obstacle any more
CanStart(t) == tasks[t].pred = 0 \/ tasks[tasks[t].pred].pc = "settled"

\* C31: a handler that throws leaves the promise of its task fulfilled, and a
\* task chained later on the same channel is held up only by tasks that have
\* not ended yet: once all earlier tasks of its channel have ended, thrown or
\* not, the handler of the task can run.
C31_ChainSurvives ==
    \A t \in DOMAIN tasks :
        /\ tasks[t].threw => HasSettled(t)
        /\ (\A u \in Earliers(t) : tasks[u].threw \/ HasSettled(u)) => CanStart(t)

\* C31 witness: a handler threw and a task chained after it on the same channel
\* ran to its end without throwing
C31_Witness ==
    \E t \in DOMAIN tasks :
        /\ HasSettled(t) /\ ~tasks[t].threw /\ tasks[t].fx # <<>>
        /\ \E u \in Earliers(t) : tasks[u].threw

Running(t) == tasks[t].pc \notin {"waiting", "settled"}

\* C32: a task awaits a task of its own channel only, so it can run as soon as
\* the earlier tasks of its channel have settled, whatever the tasks of other
\* channels are doing.
C32_ChannelsApart ==
    \A t \in DOMAIN tasks :
        /\ tasks[t].pred # 0 =>
              tasks[t].pred < t /\ ChannelOf(tasks[t].pred) = ChannelOf(t)
        /\ (\A u \in Earliers(t) : HasSettled(u)) => CanStart(t)

\* C32 witness: the handler of a task runs while the handler of an earlier task
\* of another channel has not returned
C32_Witness ==
    \E t, u \in DOMAIN tasks :
        /\ u < t /\ ChannelOf(u) # ChannelOf(t)
        /\ Running(u) /\ Running(t)

\* the Matrix sends made for the task
BridgedBack(t) ==
    \E r \in TargetRooms : \E i \in DOMAIN roomLog[r] : roomLog[r][i].t = t

\* C30 (as claimed): no 'message' event for a message the bridge posted leads to
\* a Matrix send, wherever the return of the send call falls between the steps
\* of the gateway and of OnMessage, also when OnMessage runs before the id of
\* the message is pushed onto sentMessages.
C30_Claimed ==
    \A t \in MessageTasks :
        (\E i \in DOMAIN bridgeSends :
            /\ bridgeSends[i].msg.id = tasks[t].ev.msg.id
            /\ bridgeSends[i].st = "sending")
        => ~BridgedBack(t)

\* the ids pushed onto sentMessages whose event has not been dropped yet
AwaitingEcho == {id \in everSent : Suppressed(id) = {}}

\* C33 (as claimed): sentMessages holds no more than the ids whose echo is still
\* to come: the entry of a dropped echo is released, so the length of the list
\* stays within a fixed capacity however many messages are sent.
C33_Claimed == Len(sentMessages) <= Cardinality(AwaitingEcho)

\* the Matrix events the task has asked to redact
Redacted(d) ==
    {tasks[d].fx[i][2] : i \in {j \in DOMAIN tasks[d].fx : tasks[d].fx[j][1] = "redactEvent"}}

DeleteTasks == {d \in DOMAIN tasks : tasks[d].ev.kind = "messageDelete"}

\* C38 (as claimed): once DeleteDiscordMessage has returned for a message, every
\* Matrix event that was produced for the message is redacted: the rows of all
\* of them were in the store when the task read it.
C38_Claimed ==
    \A d \in DeleteTasks :
        (HasSettled(d) /\ ~tasks[d].threw) =>
            \A k \in DOMAIN dbEvents :
                dbEvents[k].DiscordId = tasks[d].ev.msg.id =>
                    dbEvents[k].MatrixId \in Redacted(d)

\* the message of the task is the bridge's own: the bot is its author, or the
\* channel's "_matrix" webhook posted it
OwnMessage(t) ==
    tasks[t].ev.msg.author = BotId \/ tasks[t].ev.msg.webhookID = "_matrix"

\* OnMessage went past its filters for the task
PastFilters(t) == \E i \in DOMAIN tasks[t].fx : tasks[t].fx[i][1] \in Processing

MaxWide == 1

InitFanout ==
    /\ config = [disableDeletionForwarding |-> FALSE]
    /\ roomStore = InitialRoomStore
    /\ removed = {}
    /\ dbEvents = <<>>
    /\ last = NoCall
    /\ reqs = [s \in Slots |-> Idle]
    /\ fin = NoFin
    /\ emb = NoEmb
    /\ QueueIdle
    /\ CallIdle

\* 'message' for a text somebody posted on the channel with two rooms
GatewayWide ==
    /\ gw < MaxWide
    /\ Emit(GatewayEvent("message",
                         Message(gw + 1, WideChannel, "user", NoWebhook, "hi", 0)))

\* OnEvent is called with a text message of the bridged room !a
MatrixMessage ==
    \E event \in RoomEvents :
        /\ event.type = "m.room.message"
        /\ event.room_id = "!a"
        /\ event.body = Chars("hi")
        /\ Receive(1, event)

NextFanout ==
    \/ GatewayWide
    \/ Handlers
    \/ MatrixMessage
    \/ \E ok \in BOOLEAN : MsgPrepared(1, ok)
    \/ \E ok \in BOOLEAN : MsgSent(1, ok)

SpecFanout == InitFanout /\ [][NextFanout]_vars

(***************************************************************************)
(* Claims about send failures (SpecFanout).                                *)
(***************************************************************************)
\* intent.sendMessage calls made in room r for the message of task t
Attempts(log, t, r) == Cardinality({i \in DOMAIN log[r] : log[r][i].t = t})
Pending(t, r) == {f \in flight : f.t = t /\ f.room = r}
Stored(t, r) ==
    {i \in DOMAIN dbEvents : dbEvents[i].MatrixId[2] = r /\ dbEvents[i].MatrixId[1][2] = t}
Logged(t, r) == \E f \in logged : f.t = t /\ f.room = r
RoomsOfTask(t) == Range(GetRoomIdsFromChannel(ChannelOf(t)))
Deliveries == {<<t, r>> : t \in DOMAIN tasks, r \in TargetRooms}
SendCalls(fx) == Cardinality({i \in DOMAIN fx : fx[i] = "discord.send"})

\* sends to every room of the channel are issued together, by a task that has
\* already settled without throwing
SiblingsServed ==
    \A t \in DOMAIN tasks : \A r \in RoomsOfTask(t) :
        Attempts(roomLog, t, r) >= 1 =>
            /\ HasSettled(t) /\ ~tasks[t].threw
            /\ \A q \in RoomsOfTask(t) : Attempts(roomLog, t, q) >= 1

\* OnEvent calls discord.send at most once and never throws for a message; when
\* the delivery failed the last thing it did was to log the error
MatrixSendOnce ==
    /\ \A s \in Slots : SendCalls(reqs[s].fx) <= 1
    /\ fin.kind = "msg" =>
          /\ ~fin.threw
          /\ SendCalls(fin.fx) <= 1
          /\ fin.fx[Len(fin.fx)] \in {"discord.send.ok", "log.warn"}

RetryAfterJoin ==
    \A d \in Deliveries :
        LET join == [op |-> "join", t |-> d[1], room |-> d[2]]
            send == [op |-> "send", t |-> d[1], room |-> d[2]]
        IN  /\ Attempts(roomLog', d[1], d[2]) > Attempts(roomLog, d[1], d[2])
               /\ Attempts(roomLog, d[1], d[2]) >= 1 => join \in flight
            /\ join \in flight' /\ join \notin flight => send \in flight

MaxCalls == 1

\* the Matrix message the calls are about, bridged to guild 1, channel 2
MxEvent == [event_id |-> <<"$", 0, "matrix">>, room_id |-> "!a", sender |-> "@u"]

\* an attachment too large to upload, as HandleAttachment returns it
AttachmentLink == <<"[", "f", "]", "(", "u", ")">>

SendEnvs ==
    [lookup        : {"puppet", "bot", "throws"},    \* LookupRoom: whose client has the channel
     profile       : {"member", "null"},             \* getStateEvent(m.room.member)
     reply         : BOOLEAN,                        \* EventToEmbed found a reply
     file          : {"none", "link", "upload"},     \* HandleAttachment
     fetchWebhooks : {"_matrix", "none", "throws"},  \* chan.fetchWebhooks()
     createWebhook : BOOLEAN,                        \* chan.createWebhook succeeds
     send          : {"message", "messages", "throws"}]  \* chan.send / hook.send

\* embedSet.messageEmbed: the body and the author taken from the profile
MessageEmbed(event, profile) ==
    [description |-> Chars("hi"),
     author |-> IF profile = "member"
                THEN [name |-> "Alice", icon_url |-> "mxc://avatar"]
                ELSE [name |-> event.sender, icon_url |-> "undefined"],
     fields |-> <<>>]

\* embedSet.replyEmbed
ReplyEmbed(reply) ==
    IF reply THEN [author |-> [name |-> "Bob"], description |-> Chars("hi")]
    ELSE "undefined"

\* the ids of the messages the n-th send produces (negative: posted by the bridge)
Produced_always(env, n) == << 0 - (2 * n + 1) >>

Produced(env, n) ==
    CASE env.send = "message"  -> << 0 - (2 * n + 1) >>
      [] env.send = "messages" -> << 0 - (2 * n + 1), 0 - (2 * n + 2) >>
      [] OTHER                 -> <<>>

\* ProcessMatrixMsgEvent ends up with a hook: a fetched one or a created one
HookFor(env) ==
    \/ env.fetchWebhooks = "_matrix"
    \/ env.fetchWebhooks = "none" /\ env.createWebhook

\* the one send the try block issues
SendCall(event, env) ==
    LET profile == IF env.lookup = "bot" THEN env.profile ELSE "null"
        embed   == MessageEmbed(event, profile)
        reply   == ReplyEmbed(env.reply)
        file    == IF env.file = "upload" THEN "file" ELSE "undefined"
        description ==
            CASE env.file = "none" -> embed.description \o Chars(" ")
              [] env.file = "link" -> embed.description \o Chars(" ") \o AttachmentLink
              [] OTHER             -> embed.description
    IN  CASE env.lookup # "bot" ->
               [via |-> "chan", account |-> "puppet", content |-> description,
                username |-> "undefined", avatarURL |-> "undefined",
                file |-> file, embed |-> reply]
          [] env.lookup = "bot" /\ HookFor(env) ->
               [via |-> "hook", account |-> "bot", content |-> description,
                username |-> embed.author.name, avatarURL |-> embed.author.icon_url,
                file |-> file, embed |-> reply]
          [] OTHER ->
               [via |-> "chan", account |-> "bot", content |-> <<>>,
                username |-> "undefined", avatarURL |-> "undefined",
                file |-> file,
                embed |-> [embed EXCEPT
                    !.description = description,
                    !.fields = IF env.reply
                               THEN << <<"Replying to", reply.author.name>>,
                                       <<"Reply text", reply.description>> >>
                               ELSE <<>>]]

\* the n-th call of ProcessMatrixMsgEvent
ProcessMatrixMsgEvent(event, guildId, channelId, env, n) ==
    CASE env.lookup = "throws" ->
             [threw |-> TRUE, sends |-> <<>>, pushed |-> <<>>, rows |-> <<>>, log |-> <<>>]
      [] env.lookup = "bot" /\ env.fetchWebhooks = "throws" ->
             [threw |-> TRUE, sends |-> <<>>, pushed |-> <<>>, rows |-> <<>>, log |-> <<>>]
      [] OTHER ->
             LET msg == Produced(env, n)
                 created == env.lookup = "bot" /\ env.fetchWebhooks = "none"
             IN  [threw  |-> msg = <<>>,
                  sends  |-> << SendCall(event, env) >>,
                  pushed |-> msg,
                  rows   |-> [i \in DOMAIN msg |->
                                Row(event.event_id, event.room_id, msg[i], guildId, channelId)],
                  log    |-> (IF created /\ ~env.createWebhook
                              THEN <<"Unable to create \"_matrix\" webhook. ">> ELSE <<>>)
                             \o (IF msg = <<>> THEN <<"Couldn't send message. ">> ELSE <<>>)]

InitSend ==
    /\ config = [disableDeletionForwarding |-> FALSE]
    /\ roomStore = InitialRoomStore
    /\ removed = {}
    /\ dbEvents = <<>>
    /\ last = NoCall
    /\ reqs = [s \in Slots |-> Idle]
    /\ fin = NoFin
    /\ emb = NoEmb
    /\ QueueIdle
    /\ CallIdle

\* somebody calls ProcessMatrixMsgEvent for the message, in one of the environments
MatrixSend(envs) ==
    /\ Len(call) < MaxCalls
    /\ \E env \in envs :
         LET r == ProcessMatrixMsgEvent(MxEvent, <<"1">>, "2", env, Len(call)) IN
         /\ call' = Append(call, [fn |-> "ProcessMatrixMsgEvent", env |-> env, result |-> r])
         /\ sentMessages' = sentMessages \o r.pushed
         /\ everSent' = everSent \cup Range(r.pushed)
         /\ dbEvents' = dbEvents \o r.rows
    /\ UNCHANGED <<gw, timers, queue, tasks, bridgeSends, flight, roomLog, logged>>
    /\ UNCHANGED <<config, roomStore, removed, last, reqs, fin, embedVars,
                   mxUserProfileCache, webhooks>>

NextSend == MatrixSend(SendEnvs)

SpecSend == InitSend /\ [][NextSend]_vars

\* the environments in which the call reaches the point where it picks how to send
ReachesSend(env) == env.lookup # "throws"

\* C13 (as the spec states it): ProcessMatrixMsgEvent issues exactly one send
\* per Matrix event; under the bot account it goes through the "_matrix"
\* webhook with the sender's name and avatar when the hook exists or can be
\* created, and under the bot's own identity with the sender's name and avatar
\* in the embed when no hook can be provisioned: the message is never lost
\* because the relay could not be provisioned.
C13_Claimed ==
    \A i \in DOMAIN call :
        LET env == call[i].env
            r   == call[i].result
            author == MessageEmbed(MxEvent, env.profile).author
        IN  ReachesSend(env) =>
              /\ Len(r.sends) = 1
              /\ env.lookup = "bot" =>
                   IF env.fetchWebhooks = "_matrix"
                      \/ (env.fetchWebhooks = "none" /\ env.createWebhook)
                   THEN /\ r.sends[1].via = "hook"
                        /\ r.sends[1].username = author.name
                        /\ r.sends[1].avatarURL = author.icon_url
                   ELSE /\ r.sends[1].via = "chan"
                        /\ r.sends[1].account = "bot"
                        /\ r.sends[1].embed.author = author

(***************************************************************************)
(* SpecAttach: MatrixEventProcessor.HandleAttachment, one call at a time.  *)
(***************************************************************************)
MaxFileSize == 8000000

\* byte counts around the ceiling
Sizes == {0, 1, MaxFileSize - 1, MaxFileSize, MaxFileSize + 1}

MsgTypes == {"undefined", "m.text", "m.image", "m.audio", "m.video", "m.file", "m.sticker"}

\* event.content.info: missing, present without a size, or with a declared size
Infos ==
    { i \in [given : BOOLEAN, hasSize : BOOLEAN, size : Sizes] :
        /\ ~i.given => ~i.hasSize
        /\ ~i.hasSize => i.size = 0 }

\* the media events HandleAttachment is called with
MediaEvents ==
    [type : {"m.room.message", "m.sticker"}, msgtype : MsgTypes, hasUrl : BOOLEAN, info : Infos]

\* what Util.DownloadFile answers: it resolves with a buffer of byteLength bytes or rejects
Downloads == [ok : BOOLEAN, byteLength : Sizes]

\* HasAttachment for events that carry a type: the msgtype list or the sticker type
HasAttachmentTyped(event) ==
    \/ HasAttachment(event)
    \/ event.type \in {"m.sticker"}

\* event.content.info.size || 0, after a missing info was replaced by {size: 0}
DeclaredSize(event) ==
    IF event.info.given /\ event.info.hasSize THEN event.info.size ELSE 0

\* size < MaxFileSize
FitsUpload_any(size) == TRUE

FitsUpload(size) == size < MaxFileSize

HandleAttachment(event, download) ==
    LET empty == [kind |-> "string", text |-> <<>>, byteLength |-> 0,
                  downloaded |-> FALSE, threw |-> FALSE]
        link  == [empty EXCEPT !.text = AttachmentLink]
    IN  IF ~HasAttachmentTyped(event) THEN empty
        ELSE IF ~event.hasUrl THEN empty
        ELSE IF FitsUpload(DeclaredSize(event))
             THEN IF ~download.ok
                  THEN [empty EXCEPT !.kind = "none", !.downloaded = TRUE, !.threw = TRUE]
                  ELSE IF FitsUpload(download.byteLength)
                       THEN [kind |-> "file", text |-> <<"f">>,
                             byteLength |-> download.byteLength,
                             downloaded |-> TRUE, threw |-> FALSE]
                       ELSE [link EXCEPT !.downloaded = TRUE]
             ELSE link

InitAttach == InitSend

\* HandleAttachment is called and returns
AttachCall ==
    /\ call = <<>>
    /\ \E event \in MediaEvents, download \in Downloads :
          call' = << [fn |-> "HandleAttachment", event |-> event, download |-> download,
                      result |-> HandleAttachment(event, download)] >>
    /\ UNCHANGED <<routerVars, embedVars, queueVars, mxUserProfileCache, webhooks>>

\* the caller has taken the result
CallDone ==
    /\ call # <<>>
    /\ call' = <<>>
    /\ UNCHANGED <<routerVars, embedVars, queueVars, mxUserProfileCache, webhooks>>

NextAttach == AttachCall \/ CallDone

SpecAttach == InitAttach /\ [][NextAttach]_vars

\* C14: HandleAttachment returns "" for an event that is no attachment or has
\* no content.url; the link "[name](url)" without downloading when the
\* declared size is above MaxFileSize; when the declared size is below it or
\* absent it downloads and returns the file inline only if the downloaded
\* length is below MaxFileSize too, the link otherwise; no inline file is ever
\* larger than MaxFileSize.
C14_Attachment ==
    \A i \in DOMAIN call :
        LET c == call[i]
            e == c.event
            r == c.result
            attachmentType ==
                \/ e.msgtype \in {"m.image", "m.audio", "m.video", "m.file", "m.sticker"}
                \/ e.type = "m.sticker"
            absent == ~e.info.given \/ ~e.info.hasSize
        IN  c.fn = "HandleAttachment" =>
              /\ ~attachmentType \/ ~e.hasUrl =>
                    r.kind = "string" /\ r.text = <<>> /\ ~r.downloaded
              /\ attachmentType /\ e.hasUrl /\ ~absent /\ e.info.size > MaxFileSize =>
                    r.kind = "string" /\ r.text = AttachmentLink /\ ~r.downloaded
              /\ attachmentType /\ e.hasUrl /\ (absent \/ e.info.size < MaxFileSize) =>
                    /\ r.downloaded
                    /\ c.download.ok /\ c.download.byteLength < MaxFileSize =>
                          r.kind = "file" /\ r.byteLength = c.download.byteLength
                    /\ c.download.ok /\ c.download.byteLength >= MaxFileSize =>
                          r.kind = "string" /\ r.text = AttachmentLink
              /\ r.kind = "file" => r.byteLength <= MaxFileSize

\* a declared size below the ceiling that the download proves wrong
C14_Witness ==
    \E i \in DOMAIN call :
        /\ call[i].fn = "HandleAttachment"
        /\ call[i].event.info.hasSize /\ call[i].event.info.size = 1
        /\ call[i].download.ok /\ call[i].download.byteLength = MaxFileSize + 1
        /\ call[i].result.downloaded
        /\ call[i].result.text = AttachmentLink

(***************************************************************************)
(* SpecStore: the DbEvent rows.  Discord messages are delivered to Matrix  *)
(* (OnMessage) while Matrix messages are delivered to Discord              *)
(* (ProcessMatrixMsgEvent); both record what they delivered.               *)
(***************************************************************************)
\* environments that differ in who sends and in what the send answers
StoreEnvs ==
    { env \in SendEnvs :
        /\ env.lookup # "throws" /\ env.profile = "member" /\ ~env.reply
        /\ env.file = "none" /\ env.fetchWebhooks = "_matrix" /\ env.createWebhook }

InitStore == InitQueue

\* 'message' for a text or a file somebody posted on channel 2
GatewayNarrow ==
    /\ gw < MaxWide
    /\ \E m \in {u \in UserMessages(gw + 1) : u.channel = "2"} :
          Emit(GatewayEvent("message", m))

NextStore ==
    \/ GatewayNarrow
    \/ Handlers
    \/ MatrixSend(StoreEnvs)

SpecStore == InitStore /\ [][NextStore]_vars

\* the rows that name Discord message id
RowsOf(id) == {j \in DOMAIN dbEvents : dbEvents[j].DiscordId = id}

\* the sends of OnMessage that returned a Matrix event: issued and no longer pending
Returned ==
    { f \in [op : {"fileSend", "send", "resend"}, t : DOMAIN tasks, room : TargetRooms] :
        /\ f \notin flight
        /\ f.room \in Range(GetRoomIdsFromChannel(tasks[f.t].ev.msg.channel))
        /\ Attempts(roomLog, f.t, f.room) >= 1 }

\* row j was stored by OnMessage for a send that returned
FromDiscord(j) == \E f \in Returned : dbEvents[j] = Delivered(f)

\* row j was stored by a ProcessMatrixMsgEvent call for a message its send produced
FromMatrix(j) ==
    \E i \in DOMAIN call :
        /\ call[i].env.send # "throws"
        /\ dbEvents[j].DiscordId \in Range(Produced(call[i].env, i - 1))
        /\ dbEvents[j] = Row(MxEvent.event_id, MxEvent.room_id, dbEvents[j].DiscordId,
                             <<"1">>, "2")

\* rows are appended: no step changes or removes a row that is there
RowsKept == IsPrefix(dbEvents, dbEvents')

\* C15: a row is inserted only for a send that returned a message: one row per
\* produced message, keyed by the Matrix event id and the room id, with the
\* Discord message, guild and channel ids; a failed send inserts no row; no
\* operation changes a row that was inserted.
C15_RowsFollowSends ==
    /\ [](/\ \A j \in DOMAIN dbEvents : FromDiscord(j) \/ FromMatrix(j)
          /\ \A j, k \in DOMAIN dbEvents : dbEvents[j] = dbEvents[k] => j = k
          /\ \A i \in DOMAIN call :
                /\ \A id \in Range(Produced(call[i].env, i - 1)) :
                      call[i].env.send # "throws" => Cardinality(RowsOf(id)) = 1
                /\ call[i].env.send = "throws" =>
                      /\ RowsOf(0 - (2 * i - 1)) = {}
                      /\ RowsOf(0 - (2 * i)) = {}
          /\ \A f \in logged :
                \A j \in DOMAIN dbEvents : dbEvents[j] # Delivered(f))
    /\ [][RowsKept]_vars

\* a Matrix message that became two Discord messages, stored next to a
\* Discord message that was delivered at the second attempt
C15_Witness ==
    /\ \E i \in DOMAIN call :
          /\ call[i].env.send = "messages"
          /\ Cardinality({j \in DOMAIN dbEvents : FromMatrix(j)}) = 2
    /\ \E j \in DOMAIN dbEvents :
          /\ FromDiscord(j)
          /\ dbEvents[j].MatrixId[1][3] = "resend"
    /\ Len(dbEvents) = 3

(***************************************************************************)
(* SpecProfile: MatrixEventProcessor.GetUserProfileForRoom, one call at a  *)
(* time, on a cache that earlier calls filled and whose entries expire.    *)
(***************************************************************************)
ProfileRooms == {"!a", "!b"}
ProfileUsers == {"@u", "@w"}

\* the member state and the profile change over time: two versions of each
Versions == {1, 2}

Undefined == [kind |-> "undefined", v |-> 0]

\* what the homeserver answers during one call
ProfileEnvs ==
    [getStateEvent : {"profile", "null", "throws"},
     getProfileInfo : {"profile", "null", "throws"},
     v : Versions]

\* `${roomId}:${userId}`
RoomKey_bare(roomId, userId) == <<userId>>

RoomKey(roomId, userId) == <<roomId, ":", userId>>

\* TimedCache.get: undefined for a key that is not there (or has expired)
CacheGet(cache, key) == IF key \in DOMAIN cache THEN cache[key] ELSE Undefined

\* TimedCache.set
CacheSet(cache, key, value) ==
    [k \in DOMAIN cache \cup {key} |-> IF k = key THEN value ELSE cache[k]]

\* returns the profile, the fetches made and the cache the call leaves
GetUserProfileForRoom(cache, roomId, userId, env) ==
    LET scoped == CacheGet(cache, RoomKey(roomId, userId))
        global == CacheGet(cache, <<userId>>)
        member == [kind |-> "member", v |-> env.v]
        info   == [kind |-> "profile", v |-> env.v]
        Ret(value, fetches, c) == [value |-> value, fetches |-> fetches, cache |-> c]
    IN  IF scoped # Undefined THEN Ret(scoped, <<>>, cache)
        ELSE IF env.getStateEvent = "throws"
             THEN Ret(Undefined, <<"getStateEvent">>, cache)
        ELSE IF env.getStateEvent = "profile"
             THEN Ret(member, <<"getStateEvent">>,
                      CacheSet(cache, RoomKey(roomId, userId), member))
        ELSE IF global # Undefined THEN Ret(global, <<"getStateEvent">>, cache)
        ELSE IF env.getProfileInfo = "profile"
             THEN Ret(info, <<"getStateEvent", "getProfileInfo">>,
                      CacheSet(cache, <<userId>>, info))
        ELSE Ret(Undefined, <<"getStateEvent", "getProfileInfo">>, cache)

InitProfile == InitSend

\* EventToEmbed asks for the profile of a sender
ProfileCall ==
    /\ call = <<>>
    /\ \E roomId \in ProfileRooms, userId \in ProfileUsers, env \in ProfileEnvs :
         LET r == GetUserProfileForRoom(mxUserProfileCache, roomId, userId, env) IN
         /\ call' = << [fn |-> "GetUserProfileForRoom", roomId |-> roomId, userId |-> userId,
                        env |-> env, before |-> mxUserProfileCache, result |-> r] >>
         /\ mxUserProfileCache' = r.cache
    /\ UNCHANGED <<routerVars, embedVars, queueVars, webhooks>>

\* PROFILE_CACHE_LIFETIME has passed since an entry was set
Expire ==
    /\ call = <<>>
    /\ \E key \in DOMAIN mxUserProfileCache :
          mxUserProfileCache' = [k \in DOMAIN mxUserProfileCache \ {key} |->
                                    mxUserProfileCache[k]]
    /\ UNCHANGED <<routerVars, embedVars, queueVars, call, webhooks>>

NextProfile == ProfileCall \/ CallDone \/ Expire

SpecProfile == InitProfile /\ [][NextProfile]_vars

\* C16: a cached room-scoped profile ("roomId:userId") is returned without any
\* fetch; a cached global profile ("userId") is returned only when no
\* room-scoped profile is cached and the member state gave none; a fetched
\* room profile is stored under the room-scoped key and a fetched global
\* profile under the bare user key, never the other way round.
C16_RoomFirst ==
    /\ \A i \in DOMAIN call :
         LET c  == call[i]
             rk == <<c.roomId, ":", c.userId>>
             gk == <<c.userId>>
             r  == c.result
         IN  /\ rk \in DOMAIN c.before =>
                   r.value = c.before[rk] /\ r.fetches = <<>> /\ r.cache = c.before
             /\ (gk \in DOMAIN c.before /\ r.value = c.before[gk]
                    /\ "getProfileInfo" \notin Range(r.fetches)) =>
                   rk \notin DOMAIN c.before /\ c.env.getStateEvent = "null"
             /\ (rk \notin DOMAIN c.before /\ c.env.getStateEvent = "profile") =>
                   /\ r.value = [kind |-> "member", v |-> c.env.v]
                   /\ r.cache = [k \in DOMAIN c.before \cup {rk} |->
                                    IF k = rk THEN r.value ELSE c.before[k]]
             /\ "getProfileInfo" \in Range(r.fetches) /\ c.env.getProfileInfo = "profile" =>
                   /\ r.value = [kind |-> "profile", v |-> c.env.v]
                   /\ r.cache = [k \in DOMAIN c.before \cup {gk} |->
                                    IF k = gk THEN r.value ELSE c.before[k]]
    /\ \A k \in DOMAIN mxUserProfileCache :
         mxUserProfileCache[k].kind = IF Len(k) = 1 THEN "profile" ELSE "member"

\* the member state has changed since the room-scoped entry was cached, a global
\* entry is cached too, and the call returns the room-scoped entry without a fetch
C16_Witness ==
    \E i \in DOMAIN call :
        LET c == call[i] IN
        /\ c.fn = "GetUserProfileForRoom"
        /\ <<c.roomId, ":", c.userId>> \in DOMAIN c.before
        /\ <<c.userId>> \in DOMAIN c.before
        /\ c.env.getStateEvent = "profile"
        /\ c.before[<<c.roomId, ":", c.userId>>].v # c.env.v
        /\ c.result.value = c.before[<<c.roomId, ":", c.userId>>]
        /\ c.result.fetches = <<>>

(***************************************************************************)
(* SpecEscape: MatrixMessageProcessor.FormatMessage for messages without a *)
(* formatted body, and escapeDiscord applied once and once more.           *)
(* Texts are sequences of characters; "U+200A", "U+200B" and "U+0060" (the *)
(* backtick) stand for the characters with these code points.              *)
(***************************************************************************)
MaxTokens == 3

MIN_NAME_LENGTH == 2
MAX_NAME_LENGTH == 32

Everyone == <<"@", "e", "v", "e", "r", "y", "o", "n", "e">>
Here == <<"@", "h", "e", "r", "e">>
Room == <<"@", "r", "o", "o", "m">>

\* what bodies are made of: the broadcast tokens, the reserved characters, others
Tokens == {Everyone, Here, Room, <<"@">>, <<"a">>,
           <<"\\">>, <<"*">>, <<"_">>, <<"~">>, <<"U+0060">>}

RECURSIVE Flatten(_)
Flatten(seqs) == IF seqs = <<>> THEN <<>> ELSE Head(seqs) \o Flatten(Tail(seqs))

\* msg.body: up to MaxTokens tokens, one after the other
MessageBodies ==
    UNION { {Flatten(ts) : ts \in [1..n -> Tokens]} : n \in 0..MaxTokens }

\* pattern occurs in s at position i
MatchesAt(s, pattern, i) ==
    /\ i + Len(pattern) - 1 <= Len(s)
    /\ SubSeq(s, i, i + Len(pattern) - 1) = pattern

\* String.prototype.replace with a global regular expression that matches the
\* literal pattern: every match, left to right, matches not overlapping
RECURSIVE ReplaceFrom(_, _, _, _, _)
ReplaceFrom(s, pattern, replacement, i, all) ==
    IF i > Len(s) THEN <<>>
    ELSE IF MatchesAt(s, pattern, i)
         THEN replacement \o
              (IF all THEN ReplaceFrom(s, pattern, replacement, i + Len(pattern), all)
               ELSE SubSeq(s, i + Len(pattern), Len(s)))
         ELSE <<s[i]>> \o ReplaceFrom(s, pattern, replacement, i + 1, all)

ReplaceAll_first(s, pattern, replacement) == ReplaceFrom(s, pattern, replacement, 1, FALSE)

ReplaceAll(s, pattern, replacement) == ReplaceFrom(s, pattern, replacement, 1, TRUE)

\* escapeChars, in the order forEach visits them
EscapeChars_backslashLast == <<"*", "_", "~", "U+0060", "\\">>

EscapeChars == <<"\\", "*", "_", "~", "U+0060">>

\* escapeChars.forEach from the k-th character on
RECURSIVE EscapeFrom(_, _)
EscapeFrom(msg, k) ==
    IF k > Len(EscapeChars) THEN msg
    ELSE EscapeFrom(ReplaceAll(msg, <<EscapeChars[k]>>, <<"\\", EscapeChars[k]>>), k + 1)

\* MatrixMessageProcessorOpts: the defaults
DefaultOpts == [disableEveryone |-> TRUE, disableHere |-> TRUE]

escapeDiscord(opts, msg) ==
    LET m1 == IF opts.disableEveryone
              THEN ReplaceAll(msg, Everyone, <<"@", "U+200A">> \o Tail(Everyone))
              ELSE msg
        m2 == IF opts.disableHere
              THEN ReplaceAll(m1, Here, <<"@", "U+200A">> \o Tail(Here))
              ELSE m1
        m3 == ReplaceAll(m2, Room, Here)
    IN  EscapeFrom(m3, 1)

\* profile: null, or a member event with a displayname
NoProfile == [given |-> FALSE, displayname |-> <<>>]

Profiles ==
    {NoProfile} \cup
    { [given |-> TRUE, displayname |-> d] :
        d \in { <<>>, <<"A">>, <<"A", "l">>, [i \in 1..MAX_NAME_LENGTH |-> "x"],
                 [i \in 1..(MAX_NAME_LENGTH + 1) |-> "x"] } }

\* FormatMessage cutting a long display name instead of leaving it out
FormatMessage_truncated(opts, msg, profile) ==
    LET reply == escapeDiscord(opts, msg.body) IN
    IF msg.msgtype = "m.emote"
    THEN IF profile.given /\ Len(profile.displayname) >= MIN_NAME_LENGTH
         THEN <<"_">>
              \o (IF Len(profile.displayname) > MAX_NAME_LENGTH
                  THEN SubSeq(profile.displayname, 1, MAX_NAME_LENGTH)
                  ELSE profile.displayname)
              \o <<" ">> \o reply \o <<"_">>
         ELSE <<"_">> \o reply \o <<"_">>
    ELSE reply

\* FormatMessage(msg, guild, profile) for a msg without formatted_body
FormatMessage(opts, msg, profile) ==
    LET reply == escapeDiscord(opts, msg.body) IN
    IF msg.msgtype = "m.emote"
    THEN IF /\ profile.given
            /\ profile.displayname # <<>>
            /\ Len(profile.displayname) >= MIN_NAME_LENGTH
            /\ Len(profile.displayname) <= MAX_NAME_LENGTH
         THEN <<"_">> \o profile.displayname \o <<" ">> \o reply \o <<"_">>
         ELSE <<"_">> \o reply \o <<"_">>
    ELSE reply

InitEscape == InitSend

\* FormatMessage is called for a plain message
FormatCall ==
    /\ call = <<>>
    /\ \E body \in MessageBodies, msgtype \in {"m.text", "m.emote"}, profile \in Profiles :
         /\ msgtype = "m.text" => profile = NoProfile
         /\ call' = << [fn |-> "FormatMessage", body |-> body, msgtype |-> msgtype,
                        profile |-> profile, passes |-> 1,
                        result |-> FormatMessage(DefaultOpts,
                                       [body |-> body, msgtype |-> msgtype], profile),
                        once |-> <<>>] >>
    /\ UNCHANGED <<routerVars, embedVars, queueVars, mxUserProfileCache, webhooks>>

\* escapeDiscord is applied to a text
EscapeCall ==
    /\ call = <<>>
    /\ \E body \in MessageBodies :
         call' = << [fn |-> "escapeDiscord", body |-> body, msgtype |-> "m.text",
                     profile |-> NoProfile, passes |-> 1,
                     result |-> escapeDiscord(DefaultOpts, body),
                     once |-> escapeDiscord(DefaultOpts, body)] >>
    /\ UNCHANGED <<routerVars, embedVars, queueVars, mxUserProfileCache, webhooks>>

\* escapeDiscord is applied to what it returned
EscapeAgain ==
    /\ call # <<>>
    /\ call[1].fn = "escapeDiscord" /\ call[1].passes = 1
    /\ call' = << [call[1] EXCEPT !.passes = 2,
                                  !.result = escapeDiscord(DefaultOpts, call[1].result)] >>
    /\ UNCHANGED <<routerVars, embedVars, queueVars, mxUserProfileCache, webhooks>>

\* the sender's place in the room's m.room.power_levels: no room context at all,
\* or the sender's power level and the level notifications.room asks for
RoomContexts ==
    { c \in [given : BOOLEAN, power : {0, 50, 100}, needed : {50}] :
        ~c.given => c.power = 0 }

\* FormatMessage is called for a text of a sender whose room context is known
FormatInRoom ==
    /\ call = <<>>
    /\ \E body \in MessageBodies, context \in RoomContexts :
         call' = << [fn |-> "FormatMessage", body |-> body, msgtype |-> "m.text",
                     profile |-> NoProfile, passes |-> 1,
                     result |-> FormatMessage(DefaultOpts,
                                    [body |-> body, msgtype |-> "m.text"], NoProfile),
                     once |-> <<>>, context |-> context] >>
    /\ UNCHANGED <<routerVars, embedVars, queueVars, mxUserProfileCache, webhooks>>

NextEscape == FormatCall \/ FormatInRoom \/ EscapeCall \/ EscapeAgain \/ CallDone

SpecEscape == InitEscape /\ [][NextEscape]_vars

(***************************************************************************)
(* Claims about escaping (SpecEscape).                                     *)
(***************************************************************************)
Reserved == {"\\", "*", "_", "~", "U+0060"}

\* the positions at which pattern occurs in s
Positions(s, pattern) == {i \in 1..Len(s) : MatchesAt(s, pattern, i)}

HasBroadcast(body) == \E token \in {Everyone, Here, Room} : Positions(body, token) # {}

HasReserved(body) == \E i \in DOMAIN body : body[i] \in Reserved

\* every reserved character preceded by one more backslash, the rest as it is
Escaped(body) ==
    Flatten([i \in DOMAIN body |->
                IF body[i] \in Reserved THEN <<"\\", body[i]>> ELSE <<body[i]>>])

\* a backslash in front of a reserved character is dropped, that character stays
RECURSIVE Unescape(_)
Unescape(s) ==
    IF s = <<>> THEN <<>>
    ELSE IF Head(s) = "\\" /\ Len(s) >= 2 /\ s[2] \in Reserved
         THEN <<s[2]>> \o Unescape(SubSeq(s, 3, Len(s)))
         ELSE <<Head(s)>> \o Unescape(Tail(s))

FormatCalls == {i \in DOMAIN call : call[i].fn = "FormatMessage"}
EscapeCalls == {i \in DOMAIN call : call[i].fn = "escapeDiscord"}

\* C18 (as the spec states it): for a message without formatted body and
\* without broadcast tokens FormatMessage returns the body with each reserved
\* character preceded by one added backslash and nothing else changed, and
\* removing the added backslashes gives the body back.
C18_Claimed ==
    \A i \in FormatCalls :
        ~HasBroadcast(call[i].body) =>
            /\ call[i].result = Escaped(call[i].body)
            /\ Unescape(call[i].result) = call[i].body

\* the name FormatMessage puts in front of an emote
EmoteName(profile) ==
    IF profile.given /\ Len(profile.displayname) \in MIN_NAME_LENGTH..MAX_NAME_LENGTH
    THEN profile.displayname \o <<" ">>
    ELSE <<>>

\* C18 (amended): that holds for every message that is not an emote; for an
\* emote FormatMessage returns the escaped body between two underscores, after
\* the sender's display name and a space when the name has 2 to 32 characters.
C18_PlainEscaped ==
    \A i \in FormatCalls :
        LET c == call[i] IN
        ~HasBroadcast(c.body) =>
            IF c.msgtype # "m.emote"
            THEN /\ c.result = Escaped(c.body)
                 /\ Unescape(c.result) = c.body
            ELSE c.result = <<"_">> \o EmoteName(c.profile) \o Escaped(c.body) \o <<"_">>

\* a text with an asterisk, an underscore and a backslash
C18_Witness ==
    \E i \in FormatCalls :
        /\ call[i].msgtype = "m.text"
        /\ call[i].body = <<"*", "_", "\\">>
        /\ call[i].result = <<"\\", "*", "\\", "_", "\\", "\\">>

\* C19: escaping is not idempotent: a backslash followed by an asterisk becomes
\* three backslashes followed by an asterisk, every pass puts one backslash in
\* front of each reserved character (those of the pass before included), and
\* for every text with a reserved character escaping twice differs from
\* escaping once.
C19_NotIdempotent ==
    \A i \in EscapeCalls :
        LET c == call[i] IN
        /\ c.body = <<"\\", "*">> => c.once = <<"\\", "\\", "\\", "*">>
        /\ ~HasBroadcast(c.body) => c.once = Escaped(c.body)
        /\ c.passes = 2 =>
              /\ HasReserved(c.body) => c.result # c.once
              /\ ~HasBroadcast(c.body) => c.result = Escaped(Escaped(c.body))

\* the escaped asterisk, escaped twice
C19_Witness ==
    \E i \in EscapeCalls :
        /\ call[i].body = <<"\\", "*">>
        /\ call[i].passes = 2
        /\ call[i].result = <<"\\", "\\", "\\", "\\", "\\", "\\", "\\", "*">>

\* C20 (as the spec states it): with the default options every '@everyone' and
\* '@here' of the body comes out with U+200B directly after the '@', and the
\* output holds no '@everyone' and no '@here' that the sender typed.
C20_Claimed ==
    \A i \in DOMAIN call :
        LET c == call[i] IN
        (c.passes = 1 /\ c.msgtype = "m.text") =>
            /\ Cardinality(Positions(c.result, <<"@", "U+200B">> \o Tail(Everyone)))
                  = Cardinality(Positions(c.body, Everyone))
            /\ Cardinality(Positions(c.result, <<"@", "U+200B">> \o Tail(Here)))
                  = Cardinality(Positions(c.body, Here))
            /\ Positions(c.result, Everyone) = {}
            /\ Cardinality(Positions(c.result, Here)) = Cardinality(Positions(c.body, Room))

\* the FormatMessage calls made with a room context
ContextCalls == {i \in FormatCalls : "context" \in DOMAIN call[i]}

\* C21 (as the spec states it): '@room' becomes '@here' only when the sender's
\* power level in the room is at least the room's notifications.room level;
\* with less power, or without a sender/room context, '@room' stays as it is.
C21_Claimed ==
    \A i \in ContextCalls :
        LET c == call[i]
            sufficient == c.context.given /\ c.context.power >= c.context.needed
        IN  IF sufficient
            THEN /\ Positions(c.result, Room) = {}
                 /\ Cardinality(Positions(c.result, Here))
                       = Cardinality(Positions(c.body, Room))
            ELSE /\ Positions(c.result, Here) = {}
                 /\ Cardinality(Positions(c.result, Room))
                       = Cardinality(Positions(c.body, Room))

\* C22: for an m.emote message FormatMessage returns the rendered body between
\* emphasis delimiters, with the display name and a space in front of the body
\* exactly when a display name of 2 to 32 characters is given; with no name, a
\* shorter or a longer one the output is the wrapped body alone.
C22_EmoteName ==
    \A i \in FormatCalls :
        LET c == call[i]
            name == c.profile.displayname
            named == c.profile.given /\ Len(name) >= 2 /\ Len(name) <= 32
            rendered == escapeDiscord(DefaultOpts, c.body)
        IN  c.msgtype = "m.emote" =>
              /\ named => c.result = <<"_">> \o name \o <<" ">> \o rendered \o <<"_">>
              /\ ~named => c.result = <<"_">> \o rendered \o <<"_">>

\* an emote of a sender whose display name is one character too long
C22_Witness ==
    \E i \in FormatCalls :
        /\ call[i].msgtype = "m.emote"
        /\ call[i].profile.given /\ Len(call[i].profile.displayname) = 33
        /\ call[i].body = <<"a", "*">>
        /\ call[i].result = <<"_", "a", "\\", "*", "_">>

(***************************************************************************)
(* MatrixMessageProcessor, the formatted_body path: the parsed HTML tree   *)
(* is walked node by node.  A string is a tuple of characters and of       *)
(* tokens that stand for a run of characters the walk never looks into.    *)
(***************************************************************************)

\* longest text of a text node
MaxText == 2

MATRIX_TO_LINK == "https://matrix.to/#/"

Digits == {"12345", "789", "1234", "123456", "999"}

WordChars == {"a", "e", "y", "_"}

NoAttrs == [href |-> <<>>, src |-> <<>>, alt |-> <<>>, title |-> <<>>, class |-> <<>>]

\* Parser.TextNode and Parser.HTMLElement
TextNode(text) ==
    [nodeType |-> "TEXT_NODE", tagName |-> "", rawText |-> text,
     attributes |-> NoAttrs, childNodes |-> <<>>]

Element(tagName, attributes, childNodes) ==
    [nodeType |-> "ELEMENT_NODE", tagName |-> tagName, rawText |-> <<>>,
     attributes |-> attributes, childNodes |-> childNodes]

\* node.text: the text of the node's text nodes, tags left out
RECURSIVE TextOf(_)
TextOf(node) ==
    IF node.nodeType = "TEXT_NODE" THEN node.rawText
    ELSE Flatten([i \in DOMAIN node.childNodes |-> TextOf(node.childNodes[i])])

\* the digits a pattern [0-9]* takes from the front of s, and what is left
TakeDigits(s) ==
    IF s # <<>> /\ Head(s) \in Digits
    THEN [digits |-> Head(s), rest |-> Tail(s)]
    ELSE [digits |-> "", rest |-> s]

\* /language-(\w*)/i on the attributes of the opening code tag
LanguageOf(attrs) ==
    CASE attrs = " class=language-js" -> [found |-> TRUE, name |-> <<"j", "s">>]
      [] attrs = " class=language-"   -> [found |-> TRUE, name |-> <<>>]
      [] OTHER                        -> [found |-> FALSE, name |-> <<>>]

WithNewline(text) ==
    IF text # <<>> /\ Head(text) = "\n" THEN text ELSE <<"\n">> \o text

\* parsePreContent without the language tag in front of the content
parsePreContent_noLanguage(node) ==
    LET text == TextOf(node)
        match == Len(text) >= 3 /\ text[1] = "<code" /\ text[3] = ">"
    IN  IF ~match THEN WithNewline(text)
        ELSE LET t1 == SubSeq(text, 4, Len(text))
                 t2 == IF t1 # <<>> /\ t1[Len(t1)] = "</code>"
                       THEN SubSeq(t1, 1, Len(t1) - 1) ELSE t1
             IN  WithNewline(t2)

parsePreContent(node) ==
    LET text == TextOf(node)
        match == Len(text) >= 3 /\ text[1] = "<code" /\ text[3] = ">"
    IN  IF ~match THEN WithNewline(text)
        ELSE LET t1 == SubSeq(text, 4, Len(text))
                 t2 == IF t1 # <<>> /\ t1[Len(t1)] = "</code>"
                       THEN SubSeq(t1, 1, Len(t1) - 1) ELSE t1
                 t3 == WithNewline(t2)
                 language == LanguageOf(text[2])
             IN  IF language.found THEN language.name \o t3 ELSE t3

\* USER_REGEX = /^@_discord_([0-9]*)/
parseUser(guild, id) ==
    LET match == Len(id) >= 2 /\ id[1] = "@" /\ id[2] = "_discord_"
        digits == TakeDigits(SubSeq(id, 3, Len(id))).digits
    IN  IF ~match THEN <<>>
        ELSE IF digits \notin guild.members THEN <<>>
        ELSE <<"<@", digits, ">">>

\* CHANNEL_REGEX = /^#_discord_[0-9]*_([0-9]*)/
parseChannel(guild, id) ==
    LET start == Len(id) >= 2 /\ id[1] = "#" /\ id[2] = "_discord_"
        after == IF start THEN TakeDigits(SubSeq(id, 3, Len(id))).rest ELSE <<>>
        match == start /\ after # <<>> /\ Head(after) = "_"
        digits == IF match THEN TakeDigits(Tail(after)).digits ELSE ""
    IN  IF ~match \/ digits \notin guild.channels THEN <<MATRIX_TO_LINK>> \o id
        ELSE <<"<#", digits, ">">>

\* EMOTE_NAME_REGEX = /^:?(\w+):?/
RECURSIVE WordPrefix(_)
WordPrefix(s) ==
    IF s # <<>> /\ Head(s) \in WordChars THEN <<Head(s)>> \o WordPrefix(Tail(s)) ELSE <<>>

EmoteNameOf(name) ==
    LET s == IF name # <<>> /\ Head(name) = ":" THEN Tail(name) ELSE name
    IN  [found |-> WordPrefix(s) # <<>>, name |-> WordPrefix(s)]

\* guild.emojis.find: the emojis the predicate picks, none or one as ids and
\* names are unique
FindById(guild, id) == {e \in guild.emojis : e.id = id}
FindByName(guild, name) == {e \in guild.emojis : e.name = name}

EmojiToken(emoji) ==
    <<"<">> \o (IF emoji.animated THEN <<"a">> ELSE <<>>) \o <<":">>
      \o emoji.name \o <<":", emoji.id, ">">>

\* parseImageContent looking at the name before the mxc url
parseImageContent_nameFirst(guild, bot, node) ==
    LET attrs == node.attributes
        name == IF attrs.alt # <<>> THEN attrs.alt ELSE attrs.title
        match == EmoteNameOf(name)
        byName == IF match.found THEN FindByName(guild, match.name) ELSE {}
        bySrc == IF attrs.src # <<>> /\ ~bot.GetEmojiByMxc[attrs.src].throws
                 THEN FindById(guild, bot.GetEmojiByMxc[attrs.src].EmojiId) ELSE {}
    IN  [threw |-> FALSE,
         reply |-> IF byName # {} THEN EmojiToken(CHOOSE e \in byName : TRUE)
                   ELSE IF bySrc # {} THEN EmojiToken(CHOOSE e \in bySrc : TRUE)
                   ELSE escapeDiscord(DefaultOpts, name)]

parseImageContent(guild, bot, node) ==
    LET attrs == node.attributes
        name == IF attrs.alt # <<>> THEN attrs.alt ELSE attrs.title
        bySrc == IF attrs.src # <<>> /\ ~bot.GetEmojiByMxc[attrs.src].throws
                 THEN FindById(guild, bot.GetEmojiByMxc[attrs.src].EmojiId) ELSE {}
        match == EmoteNameOf(name)
        byName == IF bySrc = {} /\ match.found THEN FindByName(guild, match.name) ELSE {}
    IN  [threw |-> FALSE,
         reply |-> IF bySrc # {} THEN EmojiToken(CHOOSE e \in bySrc : TRUE)
                   ELSE IF byName # {} THEN EmojiToken(CHOOSE e \in byName : TRUE)
                   ELSE escapeDiscord(DefaultOpts, name)]

RECURSIVE walkNode(_, _, _)
RECURSIVE walkChildNodesFrom(_, _, _, _)

\* the replies of the child nodes from the k-th on, one after the other
walkChildNodesFrom(guild, bot, node, k) ==
    IF k > Len(node.childNodes) THEN [threw |-> FALSE, reply |-> <<>>]
    ELSE LET first == walkNode(guild, bot, node.childNodes[k])
             rest == walkChildNodesFrom(guild, bot, node, k + 1)
         IN  IF first.threw THEN first
             ELSE [threw |-> rest.threw, reply |-> first.reply \o rest.reply]

walkChildNodes(guild, bot, node) == walkChildNodesFrom(guild, bot, node, 1)

Wrapped(mark, walked) ==
    [threw |-> walked.threw, reply |-> mark \o walked.reply \o mark]

parsePillContent(guild, bot, node) ==
    LET href == node.attributes.href
        id == Tail(href)
        reply == IF id = <<>> THEN <<>>
                 ELSE IF id[1] = "@" THEN parseUser(guild, id)
                 ELSE IF id[1] = "#" THEN parseChannel(guild, id)
                 ELSE <<>>
    IN  IF href = <<>> \/ Head(href) # MATRIX_TO_LINK
        THEN walkChildNodes(guild, bot, node)
        ELSE IF reply = <<>> THEN walkChildNodes(guild, bot, node)
        ELSE [threw |-> FALSE, reply |-> reply]

walkNode(guild, bot, node) ==
    IF node.nodeType = "TEXT_NODE"
    THEN [threw |-> FALSE, reply |-> escapeDiscord(DefaultOpts, node.rawText)]
    ELSE IF node.nodeType = "ELEMENT_NODE"
    THEN CASE node.tagName \in {"em", "i"} ->
                Wrapped(<<"*">>, walkChildNodes(guild, bot, node))
           [] node.tagName \in {"strong", "b"} ->
                Wrapped(<<"*", "*">>, walkChildNodes(guild, bot, node))
           [] node.tagName = "u" ->
                Wrapped(<<"_", "_">>, walkChildNodes(guild, bot, node))
           [] node.tagName = "del" ->
                Wrapped(<<"~", "~">>, walkChildNodes(guild, bot, node))
           [] node.tagName = "code" ->
                [threw |-> FALSE,
                 reply |-> <<"U+0060">> \o TextOf(node) \o <<"U+0060">>]
           [] node.tagName = "pre" ->
                [threw |-> FALSE,
                 reply |-> <<"U+0060", "U+0060", "U+0060">> \o parsePreContent(node)
                             \o <<"U+0060", "U+0060", "U+0060">>]
           [] node.tagName = "a" -> parsePillContent(guild, bot, node)
           [] node.tagName = "img" -> parseImageContent(guild, bot, node)
           [] node.tagName = "br" -> [threw |-> FALSE, reply |-> <<"\n">>]
           [] OTHER -> walkChildNodes(guild, bot, node)
    ELSE [threw |-> FALSE, reply |-> <<>>]

\* FormatMessage for a msg with formatted_body: the body is parsed inside a div
FormatFormatted(guild, bot, childNodes) ==
    walkNode(guild, bot, Element("div", NoAttrs, childNodes))


\* the texts of a text node
Texts ==
    UNION { [1..n -> {"a", "*", "_", "\n"}] : n \in 0..MaxText }

Emojis ==
    { [id |-> "123456", name |-> <<"a">>, animated |-> FALSE],
      [id |-> "789", name |-> <<"e", "_">>, animated |-> TRUE] }

Guilds ==
    [members : {{}, {"12345"}}, channels : {{}, {"12345"}}, emojis : {{}, Emojis}]

\* the image a client sends for a custom emoji, and what the emoji store may
\* do with it: fail, or name an emoji that the guild has or has not
Mxc == <<"mxc://real_emote:localhost">>

Bots ==
    { [GetEmojiByMxc |-> [src \in {Mxc} |-> outcome]] :
        outcome \in { [throws |-> TRUE, EmojiId |-> ""],
                      [throws |-> FALSE, EmojiId |-> "123456"],
                      [throws |-> FALSE, EmojiId |-> "999"] } }

Hrefs ==
    { <<>>, <<"http://example.com">>, <<MATRIX_TO_LINK>>,
      <<MATRIX_TO_LINK, "@", "_discord_", "12345", ":localhost">>,
      <<MATRIX_TO_LINK, "@", "_discord_", "789", ":localhost">>,
      <<MATRIX_TO_LINK, "@", "_discord_", ":localhost">>,
      <<MATRIX_TO_LINK, "@", "alice", ":matrix.org">>,
      <<MATRIX_TO_LINK, "#", "_discord_", "1234", "_", "12345", ":localhost">>,
      <<MATRIX_TO_LINK, "#", "_discord_", "1234", "_", "789", ":localhost">>,
      <<MATRIX_TO_LINK, "#", "matrix", ":matrix.org">> }

\* what an anchor holds: a name, or a name in emphasis
AnchorTexts ==
    { <<TextNode(<<"T">>)>>, <<TextNode(<<"y", "_">>)>>,
      <<Element("em", NoAttrs, <<TextNode(<<"T">>)>>)>> }

ImageNames == { <<>>, <<"a">>, <<"e", "_">>, <<":", "e", "_", ":">>, <<"y", "_">>, <<"*">> }

CodeShapes ==
    {"text", "code", "code/em", "pre", "pre/code", "pre/code language-js",
     "pre/code language-", "pre/code hljs"}

\* the node of a shape around a text; with the option pre the parser keeps
\* what a pre element holds as one text node, tags and all
CodeNode(shape, text) ==
    LET InPre(attrs) ==
            Element("pre", NoAttrs,
                    <<TextNode(<<"<code", attrs, ">">> \o text \o <<"</code>">>)>>)
    IN  CASE shape = "text" -> TextNode(text)
          [] shape = "code" -> Element("code", NoAttrs, <<TextNode(text)>>)
          [] shape = "code/em" ->
               Element("code", NoAttrs, <<Element("em", NoAttrs, <<TextNode(text)>>)>>)
          [] shape = "pre" -> Element("pre", NoAttrs, <<TextNode(text)>>)
          [] shape = "pre/code" -> InPre("")
          [] shape = "pre/code language-js" -> InPre(" class=language-js")
          [] shape = "pre/code language-" -> InPre(" class=language-")
          [] shape = "pre/code hljs" -> InPre(" class=hljs")

InitHtml == InitSend

\* FormatMessage is called for a formatted_body that is one anchor
PillCall ==
    /\ call = <<>>
    /\ \E guild \in Guilds, href \in Hrefs, childNodes \in AnchorTexts :
         /\ guild.emojis = {}
         /\ call' = << [fn |-> "FormatMessage", tagName |-> "a", guild |-> guild,
                        href |-> href, childNodes |-> childNodes,
                        result |-> FormatFormatted(guild, CHOOSE bot \in Bots : TRUE,
                                       <<Element("a", [NoAttrs EXCEPT !.href = href],
                                                 childNodes)>>)] >>
    /\ UNCHANGED <<routerVars, embedVars, queueVars, mxUserProfileCache, webhooks>>

\* FormatMessage is called for a formatted_body that is a text, plain or in code
CodeCall ==
    /\ call = <<>>
    /\ \E shape \in CodeShapes, text \in Texts :
         call' = << [fn |-> "FormatMessage", tagName |-> "code", shape |-> shape,
                     text |-> text,
                     result |-> FormatFormatted(CHOOSE guild \in Guilds : TRUE,
                                    CHOOSE bot \in Bots : TRUE,
                                    <<CodeNode(shape, text)>>)] >>
    /\ UNCHANGED <<routerVars, embedVars, queueVars, mxUserProfileCache, webhooks>>

\* FormatMessage is called for a formatted_body that is one image
ImageCall ==
    /\ call = <<>>
    /\ \E guild \in Guilds, bot \in Bots, src \in {<<>>, Mxc},
          alt \in ImageNames, title \in {<<>>, <<"a">>} :
         /\ guild.members = {} /\ guild.channels = {}
         /\ call' = << [fn |-> "FormatMessage", tagName |-> "img", guild |-> guild,
                        bot |-> bot, src |-> src, alt |-> alt, title |-> title,
                        result |-> FormatFormatted(guild, bot,
                                       <<Element("img",
                                           [NoAttrs EXCEPT !.src = src, !.alt = alt,
                                                           !.title = title], <<>>)>>)] >>
    /\ UNCHANGED <<routerVars, embedVars, queueVars, mxUserProfileCache, webhooks>>

NextHtml == PillCall \/ CodeCall \/ ImageCall \/ CallDone

SpecHtml == InitHtml /\ [][NextHtml]_vars


(***************************************************************************)
(* Claims about the formatted_body path (SpecHtml).                        *)
(***************************************************************************)
HtmlCalls(tagName) ==
    {i \in DOMAIN call : "tagName" \in DOMAIN call[i] /\ call[i].tagName = tagName}

\* the href is the matrix.to prefix with @_discord_ and digits after it
IsUserPill(href) ==
    /\ Len(href) >= 4
    /\ href[1] = MATRIX_TO_LINK /\ href[2] = "@" /\ href[3] = "_discord_"
    /\ href[4] \in Digits

\* C23 (as the spec states it): a user pill renders as the mention <@id> exactly
\* when the digits of its href are the id of a member of the guild; otherwise
\* the output holds no mention token and is the link [text](href).
C23_Claimed ==
    \A i \in HtmlCalls("a") :
        LET c == call[i]
            text == walkChildNodesFrom(c.guild, CHOOSE bot \in Bots : TRUE,
                                       Element("a", NoAttrs, c.childNodes), 1).reply
        IN  IsUserPill(c.href) =>
              /\ (c.result.reply = <<"<@", c.href[4], ">">>) <=> (c.href[4] \in c.guild.members)
              /\ c.href[4] \notin c.guild.members =>
                   /\ \A k \in DOMAIN c.result.reply : c.result.reply[k] # "<@"
                   /\ c.result.reply = <<"[">> \o text \o <<"]", "(">> \o c.href \o <<")">>

\* one more newline in front unless the text starts with one
FenceContents(text) ==
    IF text # <<>> /\ text[1] = "\n" THEN text ELSE <<"\n">> \o text

Fence == <<"U+0060", "U+0060", "U+0060">>

\* C24: the text of an inline code element and of a code block comes out as it
\* went in, without added backslashes and without the marks of nested markup,
\* while the same text as a text leaf comes out escaped; a code block of class
\* language-js opens its fence with js, and the contents of a fence without a
\* language start with a newline.
C24_CodeVerbatim ==
    \A i \in HtmlCalls("code") :
        LET c == call[i]
            reply == c.result.reply
        IN  /\ ~c.result.threw
            /\ c.shape \in {"code", "code/em"} =>
                 reply = <<"U+0060">> \o c.text \o <<"U+0060">>
            /\ c.shape \in {"pre", "pre/code", "pre/code hljs", "pre/code language-"} =>
                 /\ reply = Fence \o FenceContents(c.text) \o Fence
                 /\ reply[Len(Fence) + 1] = "\n"
            /\ c.shape = "pre/code language-js" =>
                 reply = Fence \o <<"j", "s">> \o FenceContents(c.text) \o Fence
            /\ c.shape = "text" =>
                 /\ reply = Escaped(c.text)
                 /\ HasReserved(c.text) => reply # c.text

C24_Witness ==
    \E i \in HtmlCalls("code") :
        /\ call[i].shape = "pre/code language-js"
        /\ call[i].text = <<"*", "_">>
        /\ call[i].result.reply = Fence \o <<"j", "s", "\n", "*", "_">> \o Fence

\* the emoji of the guild an image resolves to through the emoji store
ByStore(c) ==
    IF c.src = <<>> \/ c.bot.GetEmojiByMxc[c.src].throws THEN {}
    ELSE {e \in c.guild.emojis : e.id = c.bot.GetEmojiByMxc[c.src].EmojiId}

\* the emoji of the guild that has the name the image gives, colons left out
ByAltOrTitle(c) ==
    LET name == IF c.alt # <<>> THEN c.alt ELSE c.title
    IN  {e \in c.guild.emojis :
            name \in {e.name, <<":">> \o e.name, <<":">> \o e.name \o <<":">>,
                      e.name \o <<":">>}}

MaxEmbeds == 2
MaxParts == 2

\* the control character that delimits an emoji placeholder
SOH == "U+0001"

EMOJI_SIZE == "32"

\* embed.url occurs in the content of the message
isEmbedInBody(msg, embed) ==
    /\ embed.url # <<>>
    /\ \E i \in 1..Len(msg.content) : MatchesAt(msg.content, embed.url, i)

\* the block of one embed: a rule, the title (a link when there is a url), the
\* description
EmbedBlock(embed) ==
    LET embedTitle == IF embed.title = <<>> THEN <<>>
                      ELSE IF embed.url # <<>>
                           THEN <<"[">> \o embed.title \o <<"]", "(">> \o embed.url \o <<")">>
                           ELSE embed.title
    IN  <<"\n", "\n", "----">>
          \o (IF embedTitle # <<>> THEN <<"\n", "##### ">> \o embedTitle ELSE <<>>)
          \o (IF embed.description # <<>> THEN <<"\n">> \o embed.description ELSE <<>>)

\* InsertEmbeds appending an embed although its url is in the body
InsertEmbeds_all(content, msg) ==
    content \o Flatten([k \in DOMAIN msg.embeds |->
                          IF msg.embeds[k].title = <<>> /\ msg.embeds[k].description = <<>>
                          THEN <<>> ELSE EmbedBlock(msg.embeds[k])])

RECURSIVE InsertEmbedsFrom(_, _, _)
InsertEmbedsFrom(content, msg, k) ==
    IF k > Len(msg.embeds) THEN content
    ELSE LET embed == msg.embeds[k] IN
         IF embed.title = <<>> /\ embed.description = <<>>
         THEN InsertEmbedsFrom(content, msg, k + 1)
         ELSE IF isEmbedInBody(msg, embed)
         THEN InsertEmbedsFrom(content, msg, k + 1)
         ELSE InsertEmbedsFrom(content \o EmbedBlock(embed), msg, k + 1)

InsertEmbeds(content, msg) == InsertEmbedsFrom(content, msg, 1)

\* the message type that follows the embeds instead of the author
MsgTypeOf_embeds(msg) == IF msg.embeds # <<>> THEN "m.notice" ELSE "m.text"

MsgTypeOf(msg) == IF msg.author.bot THEN "m.notice" ELSE "m.text"

\* InsertEmoji: the placeholder of a custom emoji token
InsertEmoji(node) ==
    <<SOH, node.name, SOH, IF node.animated THEN "1" ELSE "0", SOH, node.id, SOH>>

\* a placeholder starts at position i of content
PlaceholderAt(content, i) ==
    /\ i + 6 <= Len(content)
    /\ content[i] = SOH /\ content[i + 2] = SOH /\ content[i + 4] = SOH
    /\ content[i + 6] = SOH
    /\ content[i + 1] # SOH /\ content[i + 3] \in {"0", "1"} /\ content[i + 5] # SOH

\* what stands for an emoji: by its resolved image, or the token it came from
EmojiText(bot, name, animated, id, html) ==
    IF id \in DOMAIN bot.GetEmoji
    THEN IF html
         THEN <<"<img alt=\"", name, "\" title=\"", name, "\" height=\"", EMOJI_SIZE,
                "\" src=\"", bot.GetEmoji[id], "\" />">>
         ELSE <<":", name, ":">>
    ELSE (IF html THEN <<"&lt;">> ELSE <<"<">>)
           \o (IF animated THEN <<"a">> ELSE <<>>) \o <<":", name, ":", id>>
           \o (IF html THEN <<"&gt;">> ELSE <<">">>)

\* InsertMxcImages replacing the first placeholder only
RECURSIVE InsertMxcImagesFrom(_, _, _, _, _)
InsertMxcImages_first(bot, content, html) == InsertMxcImagesFrom(bot, content, html, 1, FALSE)

InsertMxcImagesFrom(bot, content, html, i, all) ==
    IF i > Len(content) THEN <<>>
    ELSE IF PlaceholderAt(content, i)
    THEN EmojiText(bot, content[i + 1], content[i + 3] = "1", content[i + 5], html)
           \o (IF all THEN InsertMxcImagesFrom(bot, content, html, i + 7, all)
               ELSE SubSeq(content, i + 7, Len(content)))
    ELSE <<content[i]>> \o InsertMxcImagesFrom(bot, content, html, i + 1, all)

InsertMxcImages(bot, content, html) == InsertMxcImagesFrom(bot, content, html, 1, TRUE)

\* FormatMessage of the Discord side: the body with the embeds and the type
DiscordFormatMessage(bot, msg) ==
    [body |-> InsertMxcImages(bot, InsertEmbeds(msg.content, msg), FALSE),
     msgtype |-> MsgTypeOf(msg)]

Embeds ==
    [title : {<<>>, <<"T">>}, url : {<<>>, <<"u", "1">>, <<"u", "2">>},
     description : {<<>>, <<"D">>}]

Contents == { <<>>, <<"m">>, <<"m", " ", "u", "1">> }

DiscordEmojis ==
    { [name |-> "hello", animated |-> FALSE, id |-> "3333333"],
      [name |-> "hello", animated |-> FALSE, id |-> "123456789"],
      [name |-> "blah", animated |-> TRUE, id |-> "1234"] }

\* a part of a content: a custom emoji, or a word (a part without id)
Word == [name |-> "H", animated |-> FALSE, id |-> ""]

\* bot.GetEmoji: the image of the ids it resolves; it throws for the others
DiscordBots == { [GetEmoji |-> [id \in ids |-> "mxc://image"]] : ids \in {{}, {"3333333"}} }

InitDiscord == InitSend

\* InsertEmbeds is called for a content and the embeds of its message
EmbedsCall ==
    /\ call = <<>>
    /\ \E content \in Contents, n \in 0..MaxEmbeds :
         \E embeds \in [1..n -> Embeds] :
            call' = << [fn |-> "InsertEmbeds", content |-> content, embeds |-> embeds,
                        result |-> InsertEmbeds(content,
                                       [content |-> content, embeds |-> embeds])] >>
    /\ UNCHANGED <<routerVars, embedVars, queueVars, mxUserProfileCache, webhooks>>

\* FormatMessage is called for a message of a user or of a bot
DiscordFormatCall ==
    /\ call = <<>>
    /\ \E content \in Contents, bot \in BOOLEAN, n \in 0..1 :
         \E embeds \in [1..n -> Embeds] :
            LET msg == [content |-> content, embeds |-> embeds, author |-> [bot |-> bot]]
            IN  call' = << [fn |-> "FormatMessage", msg |-> msg,
                            result |-> DiscordFormatMessage(
                                           CHOOSE b \in DiscordBots : TRUE, msg)] >>
    /\ UNCHANGED <<routerVars, embedVars, queueVars, mxUserProfileCache, webhooks>>

\* a content with custom emojis goes through InsertEmoji and InsertMxcImages
EmojiCall ==
    /\ call = <<>>
    /\ \E bot \in DiscordBots, html \in BOOLEAN, n \in 0..MaxParts :
         \E parts \in [1..n -> {Word} \cup DiscordEmojis] :
            LET content == Flatten([k \in 1..n |->
                               IF parts[k] \in DiscordEmojis THEN InsertEmoji(parts[k])
                               ELSE <<parts[k].name>>])
            IN  call' = << [fn |-> "InsertMxcImages", bot |-> bot, html |-> html,
                            parts |-> parts, content |-> content,
                            result |-> InsertMxcImages(bot, content, html)] >>
    /\ UNCHANGED <<routerVars, embedVars, queueVars, mxUserProfileCache, webhooks>>

NextDiscord == EmbedsCall \/ DiscordFormatCall \/ EmojiCall \/ CallDone

SpecDiscord == InitDiscord /\ [][NextDiscord]_vars


(***************************************************************************)
(* Claims about the Discord message processor (SpecDiscord).               *)
(***************************************************************************)
CallsWith(fn, field) ==
    {i \in DOMAIN call : call[i].fn = fn /\ field \in DOMAIN call[i]}

\* the embed is one that is appended to this content
Shown(content, embed) ==
    /\ embed.title # <<>> \/ embed.description # <<>>
    /\ embed.url = <<>> \/ Positions(content, embed.url) = {}

Rule == <<"\n", "\n", "----">>

TitleLine(embed) ==
    IF embed.title = <<>> THEN <<>>
    ELSE IF embed.url = <<>> THEN <<"\n", "##### ">> \o embed.title
    ELSE <<"\n", "##### ", "[">> \o embed.title \o <<"]", "(">> \o embed.url \o <<")">>

DescriptionLine(embed) ==
    IF embed.description = <<>> THEN <<>> ELSE <<"\n">> \o embed.description

\* C26: InsertEmbeds returns the content followed, in the order of the embeds,
\* by one block per embed: a rule, the title (as a link when the embed has a
\* url) and the description; an embed whose url occurs in the content, and an
\* embed without title and description, adds nothing.
C26_EmbedsAppended ==
    \A i \in CallsWith("InsertEmbeds", "embeds") :
        LET c == call[i] IN
        c.result = c.content \o
            Flatten([k \in DOMAIN c.embeds |->
                        IF Shown(c.content, c.embeds[k])
                        THEN Rule \o TitleLine(c.embeds[k]) \o DescriptionLine(c.embeds[k])
                        ELSE <<>>])

C26_Witness ==
    \E i \in CallsWith("InsertEmbeds", "embeds") :
        /\ call[i].content = <<"m", " ", "u", "1">>
        /\ call[i].embeds = << [title |-> <<"T">>, url |-> <<"u", "1">>, description |-> <<"D">>],
                               [title |-> <<"T">>, url |-> <<"u", "2">>, description |-> <<"D">>] >>
        /\ call[i].result = <<"m", " ", "u", "1", "\n", "\n", "----", "\n", "##### ",
                              "[", "T", "]", "(", "u", "2", ")", "\n", "D">>

Rendered(bot, part, html) ==
    IF part \notin DiscordEmojis THEN <<part.name>>
    ELSE IF part.id \in DOMAIN bot.GetEmoji
    THEN IF html
         THEN <<"<img alt=\"", part.name, "\" title=\"", part.name, "\" height=\"", "32",
                "\" src=\"", bot.GetEmoji[part.id], "\" />">>
         ELSE <<":", part.name, ":">>
    ELSE IF html
         THEN <<"&lt;">> \o (IF part.animated THEN <<"a">> ELSE <<>>)
                \o <<":", part.name, ":", part.id, "&gt;">>
         ELSE <<"<">> \o (IF part.animated THEN <<"a">> ELSE <<>>)
                \o <<":", part.name, ":", part.id, ">">>

MaxOps == 4

DbRows ==
    [MatrixId : {"123", "1230"}, DiscordId : {"456", "4560"},
     GuildId : {"123"}, ChannelId : {"123"}]

SameEvent(r, row) == r.MatrixId = row.MatrixId /\ r.DiscordId = row.DiscordId

\* store.Insert(event)
DbInsert(rows, row) == Append(rows, row)

\* store.Delete(event)
DbDelete(rows, row) == SelectSeq(rows, LAMBDA r : ~SameEvent(r, row))

\* store.Get giving the first row only
DbGet_one(rows, field, id) ==
    LET found == SelectSeq(rows, LAMBDA r : r[field] = id)
    IN  [Result |-> found # <<>>, ResultCount |-> IF found # <<>> THEN 1 ELSE 0,
         rows |-> IF found # <<>> THEN <<Head(found)>> ELSE <<>>]

\* store.Get(DbEvent, {matrix_id: id}) and store.Get(DbEvent, {discord_id: id})
DbGet(rows, field, id) ==
    LET found == SelectSeq(rows, LAMBDA r : r[field] = id)
    IN  [Result |-> found # <<>>, ResultCount |-> Len(found), rows |-> found]

InitDb == InitSend

\* a row is inserted; the two ids together are the key of a row
StoreInsert ==
    /\ Len(call) < MaxOps
    /\ \E row \in DbRows :
         /\ \A k \in DOMAIN dbEvents : ~SameEvent(dbEvents[k], row)
         /\ dbEvents' = DbInsert(dbEvents, row)
         /\ call' = Append(call, [fn |-> "Insert", row |-> row])
    /\ UNCHANGED <<config, roomStore, removed, last, reqs, fin, embedVars, queueVars,
                   mxUserProfileCache, webhooks>>

StoreDelete ==
    /\ Len(call) < MaxOps
    /\ \E row \in DbRows :
         /\ dbEvents' = DbDelete(dbEvents, row)
         /\ call' = Append(call, [fn |-> "Delete", row |-> row])
    /\ UNCHANGED <<config, roomStore, removed, last, reqs, fin, embedVars, queueVars,
                   mxUserProfileCache, webhooks>>

StoreGet ==
    /\ Len(call) < MaxOps
    /\ \E field \in {"MatrixId", "DiscordId"} :
         \E id \in {row[field] : row \in DbRows} :
            call' = Append(call, [fn |-> "Get", field |-> field, id |-> id,
                                  result |-> DbGet(dbEvents, field, id)])
    /\ UNCHANGED <<routerVars, embedVars, queueVars, mxUserProfileCache, webhooks>>

\* the next test starts on a new store in memory
StoreNew ==
    /\ call # <<>>
    /\ call' = <<>>
    /\ dbEvents' = <<>>
    /\ UNCHANGED <<config, roomStore, removed, last, reqs, fin, embedVars, queueVars,
                   mxUserProfileCache, webhooks>>

NextDb == StoreInsert \/ StoreDelete \/ StoreGet \/ StoreNew

SpecDb == InitDb /\ [][NextDb]_vars

(***************************************************************************)
(* Claims about the event store (SpecDb).                                  *)
(***************************************************************************)
\* the rows inserted before the j-th call and not deleted since
Live(j) ==
    {row \in DbRows :
        \E a \in 1..(j - 1) :
            /\ call[a].fn = "Insert" /\ call[a].row = row
            /\ \A b \in (a + 1)..(j - 1) : ~(call[b].fn = "Delete" /\ call[b].row = row)}

\* C29: Get by a Matrix id or by a Discord id reports as many results as rows
\* with that id were inserted and not deleted since, each of them with the four
\* fields it was inserted with; for an id that was never inserted, or whose
\* rows were all deleted, it reports no result.
C29_Multimap ==
    \A j \in DOMAIN call :
        call[j].fn = "Get" =>
            LET c == call[j]
                expected == {row \in Live(j) : row[c.field] = c.id}
            IN  /\ c.result.ResultCount = Cardinality(expected)
                /\ {c.result.rows[k] : k \in DOMAIN c.result.rows} = expected
                /\ Len(c.result.rows) = c.result.ResultCount
                /\ c.result.Result <=> expected # {}

C29_Witness ==
    /\ Len(call) = 4
    /\ call[1].fn = "Insert" /\ call[2].fn = "Insert" /\ call[3].fn = "Delete"
    /\ call[1].row.MatrixId = "123" /\ call[2].row.MatrixId = "123"
    /\ call[3].row = call[1].row
    /\ call[4].fn = "Get" /\ call[4].field = "MatrixId" /\ call[4].id = "123"
    /\ call[4].result.ResultCount = 1
    /\ call[4].result.rows = <<call[2].row>>


(***************************************************************************)
(* GetUserProfileForRoom step by step: the calls of several events run     *)
(* interleaved, each one from await to await.  call holds the calls made.  *)
(***************************************************************************)

\* most calls of GetUserProfileForRoom that overlap
MaxProfileCalls == 2

\* mxUserProfileCache.set by a call: what the cache held under the key is
\* noted in the call
StoreProfile(c, key, value) ==
    [c EXCEPT !.pc = "returned", !.value = value,
              !.stored = Append(@, [key |-> key,
                                    held |-> CacheGet(mxUserProfileCache, key)])]

\* the call runs to its first await: the room's entry of the cache is read
ProfileBegin ==
    /\ Len(call) < MaxProfileCalls
    /\ \E roomId \in ProfileRooms, userId \in ProfileUsers :
         LET scoped == CacheGet(mxUserProfileCache, RoomKey(roomId, userId))
             c == [fn |-> "GetUserProfileForRoom", roomId |-> roomId, userId |-> userId,
                   pc |-> "getStateEvent", value |-> Undefined, stored |-> <<>>]
         IN  call' = Append(call, IF scoped # Undefined
                                  THEN [c EXCEPT !.pc = "returned", !.value = scoped]
                                  ELSE c)
    /\ UNCHANGED <<routerVars, embedVars, queueVars, mxUserProfileCache, webhooks>>

\* mxClient.getStateEvent has answered
StateEventReturns(i) ==
    /\ call[i].pc = "getStateEvent"
    /\ \E answer \in {"profile", "null", "throws"}, v \in Versions :
         LET c == call[i]
             member == [kind |-> "member", v |-> v]
             global == CacheGet(mxUserProfileCache, <<c.userId>>)
         IN  CASE answer = "profile" ->
                    /\ call' = [call EXCEPT ![i] =
                                   StoreProfile(c, RoomKey(c.roomId, c.userId), member)]
                    /\ mxUserProfileCache' =
                           CacheSet(mxUserProfileCache, RoomKey(c.roomId, c.userId), member)
               [] answer = "throws" ->
                    /\ call' = [call EXCEPT ![i].pc = "returned"]
                    /\ UNCHANGED mxUserProfileCache
               [] answer = "null" ->
                    /\ call' = [call EXCEPT ![i] =
                                   IF global # Undefined
                                   THEN [c EXCEPT !.pc = "returned", !.value = global]
                                   ELSE [c EXCEPT !.pc = "getProfileInfo"]]
                    /\ UNCHANGED mxUserProfileCache
    /\ UNCHANGED <<routerVars, embedVars, queueVars, webhooks>>

\* intent.getProfileInfo has answered
ProfileInfoReturns(i) ==
    /\ call[i].pc = "getProfileInfo"
    /\ \E answer \in {"profile", "null", "throws"}, v \in Versions :
         LET c == call[i]
             info == [kind |-> "profile", v |-> v]
         IN  IF answer = "profile"
             THEN /\ call' = [call EXCEPT ![i] = StoreProfile(c, <<c.userId>>, info)]
                  /\ mxUserProfileCache' = CacheSet(mxUserProfileCache, <<c.userId>>, info)
             ELSE /\ call' = [call EXCEPT ![i].pc = "returned"]
                  /\ UNCHANGED mxUserProfileCache
    /\ UNCHANGED <<routerVars, embedVars, queueVars, webhooks>>

\* PROFILE_CACHE_LIFETIME has passed since an entry was set
ExpireEntry ==
    /\ \E key \in DOMAIN mxUserProfileCache :
          mxUserProfileCache' = [k \in DOMAIN mxUserProfileCache \ {key} |->
                                    mxUserProfileCache[k]]
    /\ UNCHANGED <<routerVars, embedVars, queueVars, call, webhooks>>

NextProfileRace ==
    \/ ProfileBegin
    \/ \E i \in DOMAIN call : StateEventReturns(i)
    \/ \E i \in DOMAIN call : ProfileInfoReturns(i)
    \/ ExpireEntry

SpecProfileRace == InitProfile /\ [][NextProfileRace]_vars

\* C34 (as claimed): a call of GetUserProfileForRoom stores a value only under
\* a key the cache holds nothing for, also when calls for the same room and
\* user overlap and all of them missed the cache before one of them stored.
C34_Claimed ==
    \A i \in DOMAIN call :
        \A k \in DOMAIN call[i].stored : call[i].stored[k].held = Undefined


(***************************************************************************)
(* EventToEmbed, the author of the message embed: the sender's profile is  *)
(* looked up with GetUserProfileForRoom and given to SetEmbedAuthor.       *)
(***************************************************************************)
AuthorRoom == "!a"

AuthorSenders == ProfileUsers \cup RemoteUsers

\* the characters of a user id; the id of @w is longer than MAX_NAME_LENGTH
SenderChars(userId) ==
    CASE userId = "@u" -> <<"@", "u", ":", "h">>
      [] userId = "@w" -> [i \in 1..(MAX_NAME_LENGTH + 8) |-> IF i = 1 THEN "@" ELSE "w"]
      [] OTHER -> <<"@", "_discord_", "1", ":", "h">>

\* what a member event or a profile holds: the first version a name and an
\* avatar, the second one a name that is too long and no avatar
ProfileFields(profile) ==
    IF profile.v = 1
    THEN [displayname |-> <<"A", "l">>, avatar_url |-> <<"mxc://avatar">>]
    ELSE [displayname |-> [i \in 1..(MAX_NAME_LENGTH + 1) |-> "x"], avatar_url |-> <<>>]

\* what discord.GetDiscordUserOrMember may give for a bridged Discord user
DiscordLookups == {"User", "GuildMember", "undefined", "rejects"}

\* a name that is not cut
Cut_whole(s, n) == s

\* s.substr(0, n)
Cut(s, n) == IF Len(s) > n THEN SubSeq(s, 1, n) ELSE s

\* SetEmbedAuthor that asks Discord about no sender
SetEmbedAuthor_matrixOnly(sender, profile, lookup) ==
    [threw |-> FALSE,
     author |-> [name |-> Cut(SenderChars(sender), MAX_NAME_LENGTH), icon |-> <<>>,
                 url |-> <<"https://matrix.to/#/">> \o SenderChars(sender)]]

\* SetEmbedAuthor(embed, sender, profile): whether it threw, and the author set
SetEmbedAuthor(sender, profile, lookup) ==
    LET fields == ProfileFields(profile)
        named == /\ profile # Undefined
                 /\ fields.displayname # <<>>
                 /\ Len(fields.displayname) >= MIN_NAME_LENGTH
                 /\ Len(fields.displayname) <= MAX_NAME_LENGTH
        displayName == IF named THEN fields.displayname ELSE SenderChars(sender)
        avatarUrl == IF profile # Undefined /\ fields.avatar_url # <<>>
                     THEN <<"mxcUrlToHttp">> \o fields.avatar_url ELSE <<>>
    IN  IF isRemoteUser(sender) /\ lookup = "rejects"
        THEN [threw |-> TRUE, author |-> [name |-> <<>>, icon |-> <<>>, url |-> <<>>]]
        ELSE IF isRemoteUser(sender) /\ lookup = "User"
        THEN [threw |-> FALSE,
              author |-> [name |-> <<"username">>, icon |-> <<"avatarURL">>, url |-> <<>>]]
        ELSE IF isRemoteUser(sender) /\ lookup = "GuildMember"
        THEN [threw |-> FALSE,
              author |-> [name |-> <<"displayName">>, icon |-> <<"avatarURL">>, url |-> <<>>]]
        ELSE [threw |-> FALSE,
              author |-> [name |-> Cut(displayName, MAX_NAME_LENGTH), icon |-> avatarUrl,
                          url |-> <<"https://matrix.to/#/">> \o SenderChars(sender)]]

InitAuthor == InitSend

\* EventToEmbed up to the author of the message embed
AuthorCall ==
    /\ call = <<>>
    /\ \E sender \in AuthorSenders, env \in ProfileEnvs, lookup \in DiscordLookups :
         LET r == GetUserProfileForRoom(mxUserProfileCache, AuthorRoom, sender, env)
             set == SetEmbedAuthor(sender, r.value, lookup)
         IN  /\ ~isRemoteUser(sender) => lookup = "undefined"
             /\ call' = << [fn |-> "EventToEmbed", sender |-> sender, env |-> env,
                            lookup |-> lookup, before |-> mxUserProfileCache,
                            profile |-> r, result |-> set] >>
             /\ mxUserProfileCache' = r.cache
    /\ UNCHANGED <<routerVars, embedVars, queueVars, webhooks>>

NextAuthor == AuthorCall \/ CallDone

SpecAuthor == InitAuthor /\ [][NextAuthor]_vars

(***************************************************************************)
(* Claims about the author of the embed (SpecAuthor).                      *)
(***************************************************************************)
AuthorCalls == {i \in DOMAIN call : call[i].fn = "EventToEmbed"}

\* a fetch of the call failed: getStateEvent threw, or getProfileInfo threw
\* when it was asked
FetchFailed(c) ==
    \/ c.profile.fetches = <<"getStateEvent">> /\ c.env.getStateEvent = "throws"
    \/ /\ c.profile.fetches = <<"getStateEvent", "getProfileInfo">>
       /\ c.env.getProfileInfo = "throws"

\* the author made of the Matrix id alone
DefaultAuthor(sender) ==
    [name |-> IF Len(SenderChars(sender)) > 32 THEN SubSeq(SenderChars(sender), 1, 32)
              ELSE SenderChars(sender),
     icon |-> <<>>,
     url |-> <<"https://matrix.to/#/">> \o SenderChars(sender)]

MaxMsgEvents == 2

NoHook == 0

Webhook(name, id) == [name |-> name, id |-> id]

\* webhooks.filterArray((h) => h.name === "_matrix").pop(): the id of the last
\* webhook of that name, NoHook when there is none
MatrixHook(hooks) ==
    LET named == SelectSeq(hooks, LAMBDA h : h.name = "_matrix")
    IN  IF named = <<>> THEN NoHook ELSE named[Len(named)].id

InitWebhook ==
    /\ config = [disableDeletionForwarding |-> FALSE]
    /\ roomStore = InitialRoomStore
    /\ removed = {}
    /\ dbEvents = <<>>
    /\ last = NoCall
    /\ reqs = [s \in Slots |-> Idle]
    /\ fin = NoFin
    /\ emb = NoEmb
    /\ QueueIdle
    /\ call = <<>>
    /\ mxUserProfileCache = <<>>
    /\ webhooks \in {<<>>, <<Webhook("other", 1)>>, <<Webhook("_matrix", 1)>>}

WebhookFrame == UNCHANGED <<routerVars, embedVars, queueVars, mxUserProfileCache>>

\* ProcessMatrixMsgEvent runs up to chan.fetchWebhooks(), or up to the send when
\* the channel was found under the sender's own client
MsgEventBegin ==
    /\ Len(call) < MaxMsgEvents
    /\ \E botUser \in BOOLEAN :
          call' = Append(call, [fn |-> "ProcessMatrixMsgEvent", botUser |-> botUser,
                                pc |-> IF botUser THEN "fetchWebhooks" ELSE "send",
                                hook |-> NoHook, created |-> FALSE])
    /\ UNCHANGED webhooks
    /\ WebhookFrame

\* chan.fetchWebhooks() has answered, or has failed
FetchWebhooksReturns(i) ==
    /\ call[i].pc = "fetchWebhooks"
    /\ \E ok \in BOOLEAN :
          call' = [call EXCEPT ![i] =
                      IF ~ok THEN [@ EXCEPT !.pc = "threw"]
                      ELSE IF MatrixHook(webhooks) # NoHook
                      THEN [@ EXCEPT !.pc = "send", !.hook = MatrixHook(webhooks)]
                      ELSE [@ EXCEPT !.pc = "createWebhook"]]
    /\ UNCHANGED webhooks
    /\ WebhookFrame

\* chan.createWebhook("_matrix", ...) has answered, or has failed and the error
\* was logged
CreateWebhookReturns(i) ==
    /\ call[i].pc = "createWebhook"
    /\ \E ok \in BOOLEAN :
          IF ok
          THEN /\ webhooks' = Append(webhooks, Webhook("_matrix", Len(webhooks) + 1))
               /\ call' = [call EXCEPT ![i].pc = "send", ![i].hook = Len(webhooks) + 1,
                                       ![i].created = TRUE]
          ELSE /\ call' = [call EXCEPT ![i].pc = "send"]
               /\ UNCHANGED webhooks
    /\ WebhookFrame

\* the message was sent through the hook or through the client
MsgEventSent(i) ==
    /\ call[i].pc = "send"
    /\ call' = [call EXCEPT ![i].pc = "returned"]
    /\ UNCHANGED webhooks
    /\ WebhookFrame

NextWebhook ==
    \/ MsgEventBegin
    \/ \E i \in DOMAIN call : FetchWebhooksReturns(i)
    \/ \E i \in DOMAIN call : CreateWebhookReturns(i)
    \/ \E i \in DOMAIN call : MsgEventSent(i)

SpecWebhook == InitWebhook /\ [][NextWebhook]_vars

\* C39 (as claimed): the channel never has more than one webhook named
\* "_matrix", also when several Matrix events of the channel are processed at
\* the same time.
C39_Claimed ==
    Cardinality({k \in DOMAIN webhooks : webhooks[k].name = "_matrix"}) <= 1


(***************************************************************************)
(* SpecLookup: DiscordBot.LookupRoom, the lookup of a channel under the    *)
(* sender's Discord client with the bot's client as fallback.              *)
(***************************************************************************)

\* sender = null
NullSender == "null"

LookupSenders == {"@alice", NullSender}
LookupServers == {"1", "9"}
LookupChannels == {"2", "34"}

\* what a client holds: its guilds and the channels of each
ClientViews ==
    {[guilds |-> {}, channels |-> {}],
     [guilds |-> {"1"}, channels |-> {}],
     [guilds |-> {"1"}, channels |-> {<<"1", "2">>}],
     [guilds |-> {"1"}, channels |-> {<<"1", "2">>, <<"1", "34">>}]}

\* clientFactory.getClient(sender) for a sender: the sender's own client, the
\* bot's client when the sender has none, or a rejection
LookupEnvs ==
    [getClient : {"own", "bot", "rejects"}, own : ClientViews, bot : ClientViews]

\* a LookupRoom that never falls back
HasSender_never(sender) == FALSE

\* const hasSender = sender !== null
HasSender(sender) == sender # NullSender

\* the client getClient(sender) resolves to, "rejects" when it rejects
ClientOf(sender, env) == IF sender = NullSender THEN "bot" ELSE env.getClient

\* the then callback: the lookup of guild and channel in the client
LookupIn(client, server, room, env) ==
    LET view == IF client = "own" THEN env.own ELSE env.bot
    IN  IF client = "rejects" THEN [ok |-> FALSE, botUser |-> FALSE, error |-> "getClient"]
        ELSE IF server \notin view.guilds
        THEN [ok |-> FALSE, botUser |-> FALSE, error |-> "Guild not found"]
        ELSE IF <<server, room>> \in view.channels
        THEN [ok |-> TRUE, botUser |-> client = "bot", error |-> ""]
        ELSE [ok |-> FALSE, botUser |-> FALSE, error |-> "Channel not found"]

\* LookupRoom(server, room, sender): the result, and the senders getClient was
\* asked for in turn
RECURSIVE LookupRoom(_, _, _, _)
LookupRoom(server, room, sender, env) ==
    LET r == LookupIn(ClientOf(sender, env), server, room, env)
    IN  IF r.ok THEN [result |-> r, attempts |-> <<sender>>]
        ELSE IF HasSender(sender)
        THEN LET again == LookupRoom(server, room, NullSender, env)
             IN  [again EXCEPT !.attempts = <<sender>> \o @]
        ELSE [result |-> r, attempts |-> <<sender>>]

InitLookup == InitSend

LookupCall ==
    /\ call = <<>>
    /\ \E server \in LookupServers, room \in LookupChannels, sender \in LookupSenders,
          env \in LookupEnvs :
          call' = << [fn |-> "LookupRoom", server |-> server, room |-> room,
                      sender |-> sender, env |-> env,
                      out |-> LookupRoom(server, room, sender, env)] >>
    /\ UNCHANGED <<routerVars, embedVars, queueVars, mxUserProfileCache, webhooks>>

NextLookup == LookupCall \/ CallDone

SpecLookup == InitLookup /\ [][NextLookup]_vars

(***************************************************************************)
(* Claims about LookupRoom (SpecLookup).                                   *)
(***************************************************************************)
LookupCalls == {i \in DOMAIN call : call[i].fn = "LookupRoom"}

\* the channel is in the given view
InView(c, view) == <<c.server, c.room>> \in view.channels /\ c.server \in view.guilds

\* the lookup under the client of the sender itself succeeds
FirstSucceeds(c) ==
    IF c.sender = NullSender \/ c.env.getClient = "bot" THEN InView(c, c.env.bot)
    ELSE c.env.getClient = "own" /\ InView(c, c.env.own)

\* C40: LookupRoom makes one attempt, or two: the second one only for a sender
\* whose own attempt failed, and then under the bot's client (sender = null);
\* when the last attempt fails the error is raised; on success botUser tells
\* whether the client that found the channel is the bot's.
C40_TwoAttempts ==
    \A i \in LookupCalls :
        LET c == call[i]
            out == c.out
        IN  /\ Len(out.attempts) \in {1, 2}
            /\ out.attempts[1] = c.sender
            /\ Len(out.attempts) = 2 <=> (c.sender # NullSender /\ ~FirstSucceeds(c))
            /\ Len(out.attempts) = 2 => out.attempts[2] = NullSender
            /\ out.result.ok <=> (FirstSucceeds(c) \/ InView(c, c.env.bot))
            /\ out.result.ok =>
                 out.result.botUser =
                    ~(FirstSucceeds(c) /\ c.sender # NullSender /\ c.env.getClient = "own")

\* C40 witness: the sender's own client lacks the channel, the bot's client
\* has it
C40_Witness ==
    \E i \in LookupCalls :
        /\ call[i].sender = "@alice" /\ call[i].env.getClient = "own"
        /\ call[i].env.own.guilds = {"1"} /\ ~InView(call[i], call[i].env.own)
        /\ call[i].out.attempts = <<"@alice", NullSender>>
        /\ call[i].out.result.ok /\ call[i].out.result.botUser

====
